---- MODULE Spec2Model ----
(***************************************************************************)
(* Model of the UTXO input-selection engine of iota-lib-rs                 *)
(* (client/src/api/block_builder/input_selection) and of three drivers     *)
(* around it.  The state is the InputSelection struct, initially as new()  *)
(* and the builder methods leave it; the actions are the steps of          *)
(* select(): filter_inputs, init, one iteration of the requirement loop,   *)
(* the remainder / sort epilogue.  Further specifications model            *)
(* ClientBlockBuilder::get_inputs (the address scan of the automatic input *)
(* selection), Client::retry_until_included, and the key-clearing task of  *)
(* the StrongholdAdapter; each has its own variables, which the other      *)
(* specifications leave at their initial values.                           *)
(***************************************************************************)
EXTENDS Integers, Sequences, FiniteSets, TLC

VARIABLES
    available_inputs,            \* Vec<InputSigningData>
    required_inputs,             \* Option<HashSet<OutputId>>: [some, ids]
    forbidden_inputs,            \* HashSet<OutputId>
    selected_inputs,             \* Vec<InputSigningData>
    outputs,                     \* Vec<Output>
    addresses,                   \* HashSet<Address>
    burn,                        \* Option<Burn>
    remainder_address,           \* Option<Address> (NoAddr = None)
    timestamp,                   \* u32
    requirements,                \* Vec<Requirement>, used as a stack
    automatically_transitioned,  \* HashSet<ChainId>
    pc,                          \* position of the caller / of select()
    result,                      \* Result<Selected>
    args,                        \* the arguments the caller built the selection from
    first,                       \* outcome of an earlier select() on equal arguments
    initial_requirements,        \* history: requirements on the stack when the loop starts
    iterations,                  \* history: iterations of the requirement loop so far
    \* get_inputs (automatic.rs): the node's ledger and the locals of the scan;
    \* available_inputs, outputs, pc and result are used for its pool,
    \* self.outputs, its position and its return value
    ledger,                      \* unspent outputs the indexer knows, Vec of [output_id, output]
    local_time,                  \* get_time_checked()
    gap_index,                   \* first address index of the current round
    empty_address_count,         \* consecutive addresses without outputs
    cached_error,                \* Option<Error>
    address_index,               \* index written into the derivation chain
    loop_index,                  \* `index` of the enumerate() over the addresses
    attempts,                    \* history: result of every try_select_inputs call so far
    \* retry_until_included (client.rs)
    message_ids,                 \* attachments checked for inclusion
    messages_with_id,            \* reattached messages, the return value
    attempt,                     \* attempts started so far
    max_attempts,                \* the argument (Some(n))
    message_ids_len,             \* message_ids.len() at the start of the attempt
    msg_index,                   \* `index` of the enumerate() over the attachments
    metadata,                    \* metadata the node returned for the attachment just checked
    retried,                     \* history: promote / reattach calls sent to the node
    \* StrongholdAdapter (stronghold/mod.rs)
    key,                         \* Arc<Mutex<Option<key>>>: 0 = None, else the password it derives from
    timeout_task,                \* Arc<Mutex<Option<JoinHandle>>>: 0 = None, else the task
    tasks,                       \* the spawned task_key_clear tasks: position and abort flag
    calls                        \* history: set_password calls started so far

selection_vars == <<available_inputs, required_inputs, forbidden_inputs, selected_inputs,
                    outputs, addresses, burn, remainder_address, timestamp, requirements,
                    automatically_transitioned, pc, result, args, first,
                    initial_requirements, iterations>>
scan_vars == <<ledger, local_time, gap_index, empty_address_count, cached_error,
               address_index, loop_index, attempts>>
retry_vars == <<message_ids, messages_with_id, attempt, max_attempts, message_ids_len,
                msg_index, metadata, retried>>
stronghold_vars == <<key, timeout_task, tasks, calls>>

vars == <<selection_vars, scan_vars, retry_vars, stronghold_vars>>

(***************************************************************************)
(* Bounds of the model.                                                    *)
(***************************************************************************)
MaxPool == 3        \* inputs in a supplied pool
MaxOutputs == 2     \* outputs in a request
MaxRequired == 2    \* ids in a required-inputs set
MaxForbidden == 1   \* ids in a forbidden-inputs set

(***************************************************************************)
(* Addresses.                                                              *)
(***************************************************************************)
Ed25519(n) == [kind |-> "ed25519", id |-> n]
AliasAddress(id) == [kind |-> "alias", id |-> id]
NftAddress(id) == [kind |-> "nft", id |-> id]
NoAddr == [kind |-> "none", id |-> 0]

AddrA == Ed25519(1)
AddrB == Ed25519(2)
AddrC == Ed25519(3)

\* Address::to_bech32 / Address::try_from_bech32: HRP, then the payload, a
\* one-byte kind tag (0 Ed25519, 8 Alias, 16 NFT) followed by the hash/id.
KindTag(kind) == CASE kind = "ed25519" -> 0 [] kind = "alias" -> 8 [] kind = "nft" -> 16
KindOfTag(tag) == CASE tag = 0 -> "ed25519" [] tag = 8 -> "alias" [] tag = 16 -> "nft"
to_bech32(address) == <<"rms", KindTag(address.kind), address.id>>
try_from_bech32(s) == [kind |-> KindOfTag(s[2]), id |-> s[3]]

(***************************************************************************)
(* Outputs.  One record shape for the four variants.                       *)
(*   addr  Address unlock condition (basic, NFT), state controller         *)
(*         (alias), immutable alias address (foundry)                      *)
(*   gov   governor (alias)                                                *)
(*   id    alias id / NFT id (0 = null), serial number (foundry)           *)
(***************************************************************************)
Tokens == {"T1", "TF"}
NoTokens == [t \in Tokens |-> 0]
NoExpiration == [ret |-> NoAddr, ts |-> 0]
NoSdr == [ret |-> NoAddr, amount |-> 0]

OutputBase(kind, amount, addr) ==
    [kind |-> kind, amount |-> amount, id |-> 0, addr |-> addr, gov |-> NoAddr,
     sender |-> NoAddr, issuer |-> NoAddr, tokens |-> NoTokens, state_index |-> 0,
     minted |-> 0, melted |-> 0, timelock |-> 0, expiration |-> NoExpiration,
     sdr |-> NoSdr]

Basic(amount, addr) == OutputBase("basic", amount, addr)
Nft(amount, id, addr) == [OutputBase("nft", amount, addr) EXCEPT !.id = id]
Alias(amount, id, addr, state_index) ==
    [OutputBase("alias", amount, addr) EXCEPT !.id = id, !.gov = addr,
                                               !.state_index = state_index]
Foundry(amount, alias_id, serial, minted, melted) ==
    [OutputBase("foundry", amount, AliasAddress(alias_id)) EXCEPT
        !.id = serial, !.minted = minted, !.melted = melted]

WithTokens(o, t, n) == [o EXCEPT !.tokens[t] = n]
WithSender(o, a) == [o EXCEPT !.sender = a]
WithIssuer(o, a) == [o EXCEPT !.issuer = a]
WithTimelock(o, ts) == [o EXCEPT !.timelock = ts]
WithExpiration(o, ret, ts) == [o EXCEPT !.expiration = [ret |-> ret, ts |-> ts]]
WithSdr(o, ret, amount) == [o EXCEPT !.sdr = [ret |-> ret, amount |-> amount]]

\* InputSigningData: the output, its output id, and the bech32 string of the
\* address that controls it (as the test helper build_inputs sets it).
Input(output_id, output) ==
    [output_id |-> output_id, output |-> output, bech32_address |-> to_bech32(output.addr)]

\* OutputId::hash, used for the id of a chain output whose stored id is null.
Hash(output_id) == 100 + output_id

alias_id_non_null(input) ==
    IF input.output.id = 0 THEN Hash(input.output_id) ELSE input.output.id
nft_id_non_null(input) ==
    IF input.output.id = 0 THEN Hash(input.output_id) ELSE input.output.id

\* FoundryId: controlling alias id, serial number, token scheme kind.
FoundryIdOf(o) == o.addr.id * 10 + o.id

ChainId(kind, id) == [kind |-> kind, id |-> id]

\* Output::chain_id of an output (the stored id, possibly null).
OutputChainId(o) ==
    CASE o.kind = "alias" -> ChainId("alias", o.id)
      [] o.kind = "nft" -> ChainId("nft", o.id)
      [] o.kind = "foundry" -> ChainId("foundry", FoundryIdOf(o))
      [] OTHER -> ChainId("none", 0)

\* Chain id of an input, with a null alias/NFT id replaced by the hash.
InputChainId(input) ==
    CASE input.output.kind = "alias" -> ChainId("alias", alias_id_non_null(input))
      [] input.output.kind = "nft" -> ChainId("nft", nft_id_non_null(input))
      [] input.output.kind = "foundry" -> ChainId("foundry", FoundryIdOf(input.output))
      [] OTHER -> ChainId("none", 0)

(***************************************************************************)
(* Sequence helpers (Vec operations).                                      *)
(***************************************************************************)
Range(s) == {s[i] : i \in DOMAIN s}

\* A swap_remove that takes the element without removing it.
swap_remove_kept(v, index) == v

\* Vec::swap_remove: the last element takes the place of the removed one.
swap_remove(v, index) ==
    IF index = Len(v) THEN SubSeq(v, 1, Len(v) - 1)
    ELSE [i \in 1..(Len(v) - 1) |-> IF i = index THEN v[Len(v)] ELSE v[i]]

\* Vec::remove: the elements after the removed one shift left.
remove(v, index) == SubSeq(v, 1, index - 1) \o SubSeq(v, index + 1, Len(v))

\* Vec::insert at a 1-based position.
insert(v, index, x) == SubSeq(v, 1, index - 1) \o <<x>> \o SubSeq(v, index, Len(v))

\* Iterator::position over a set of matching indexes: the first, or 0 for None.
First(S) == IF S = {} THEN 0 ELSE CHOOSE i \in S : \A j \in S : i <= j

RECURSIVE SumSeq(_)
SumSeq(s) == IF s = <<>> THEN 0 ELSE s[1] + SumSeq(Tail(s))

\* The sequences of at most n distinct elements of S.
DistinctSeqs(S, n) ==
    UNION {{s \in [1..k -> S] : \A i, j \in 1..k : i # j => s[i] # s[j]} : k \in 0..n}

\* All orders in which a set can be iterated.
Orders(S) == {s \in [1..Cardinality(S) -> S] : \A i, j \in DOMAIN s : i # j => s[i] # s[j]}

(***************************************************************************)
(* Unlockability oracle.                                                   *)
(***************************************************************************)
\* UnlockConditions::is_time_locked
is_time_locked(o, t) == o.timelock # 0 /\ t < o.timelock

HasExpiration(o) == o.expiration.ret.kind # "none"

\* Output::required_and_unlocked_address, first component: the address that
\* has to unlock the output at time t.  alias_transition is "State",
\* "Governance" or "None".
required_address(o, t, alias_transition) ==
    CASE o.kind = "alias" ->
            IF alias_transition = "Governance" THEN o.gov ELSE o.addr
      [] o.kind = "foundry" -> o.addr
      [] OTHER ->
            IF HasExpiration(o) /\ t >= o.expiration.ts THEN o.expiration.ret ELSE o.addr

(***************************************************************************)
(* Storage deposit: v_byte_cost * (weighted size of the output).  The size *)
(* grows with the variant, each native token and each feature.             *)
(***************************************************************************)
TokenKinds(o) == Cardinality({t \in Tokens : o.tokens[t] > 0})

OutputSize(o) ==
    (IF o.kind = "basic" THEN 2 ELSE 3)
    + TokenKinds(o)
    + (IF o.sender.kind # "none" THEN 1 ELSE 0)
    + (IF o.issuer.kind # "none" THEN 1 ELSE 0)

storage_deposit_minimum(o) == OutputSize(o)

\* MessageMetadataResponse, the fields retry_until_included reads.
Metadata(included, should_promote, should_reattach) ==
    [ledger_inclusion_state |-> included, should_promote |-> should_promote,
     should_reattach |-> should_reattach]
NoMetadata == Metadata(FALSE, FALSE, FALSE)

(***************************************************************************)
(* Requirements and errors.                                                *)
(***************************************************************************)
Req(kind, id, transition, addr) ==
    [kind |-> kind, id |-> id, transition |-> transition, addr |-> addr]
ReqAmount == Req("Amount", 0, "None", NoAddr)
ReqNativeTokens == Req("NativeTokens", 0, "None", NoAddr)
ReqAlias(id, transition) == Req("Alias", id, transition, NoAddr)
ReqNft(id) == Req("Nft", id, "None", NoAddr)
ReqFoundry(id) == Req("Foundry", id, "None", NoAddr)
ReqSender(addr) == Req("Sender", 0, "None", addr)
ReqIssuer(addr) == Req("Issuer", 0, "None", addr)
NoReq == Req("None", 0, "None", NoAddr)

Err(kind) == [kind |-> kind, id |-> 0, found |-> 0, required |-> 0, req |-> NoReq,
              token |-> "none"]
NoError == Err("None")
ErrId(kind, id) == [Err(kind) EXCEPT !.id = id]
ErrAmounts(kind, found, required) == [Err(kind) EXCEPT !.found = found, !.required = required]
UnfulfillableRequirement(req) == [Err("UnfulfillableRequirement") EXCEPT !.req = req]

\* What a fulfiller returns: the inputs it took out of the pool, each with
\* the alias transition it was selected for, the pool it leaves, or an error.
Fulfilled(inputs, transition, available) ==
    [ok |-> TRUE,
     inputs |-> [i \in DOMAIN inputs |-> [input |-> inputs[i], alias_transition |-> transition]],
     available |-> available, err |-> NoError]
Failed(err, available) == [ok |-> FALSE, inputs |-> <<>>, available |-> available, err |-> err]

(***************************************************************************)
(* Requirement fulfillers.                                                 *)
(***************************************************************************)
IsAliasWithId(input, alias_id) ==
    input.output.kind = "alias" /\ alias_id_non_null(input) = alias_id

IsNftWithId(input, nft_id) ==
    input.output.kind = "nft" /\ nft_id_non_null(input) = nft_id

IsFoundryWithId(input, foundry_id) ==
    input.output.kind = "foundry" /\ FoundryIdOf(input.output) = foundry_id

\* fulfill_alias_requirement without the check of the selected inputs.
fulfill_alias_requirement_unchecked(alias_id, transition, available, selected) ==
    LET index == First({i \in DOMAIN available : IsAliasWithId(available[i], alias_id)})
    IN  IF index # 0
        THEN Fulfilled(<<available[index]>>, transition, swap_remove(available, index))
        ELSE Failed(UnfulfillableRequirement(ReqAlias(alias_id, transition)), available)

fulfill_alias_requirement(alias_id, transition, available, selected) ==
    IF \E i \in DOMAIN selected : IsAliasWithId(selected[i], alias_id)
    THEN Fulfilled(<<>>, transition, available)
    ELSE LET index == First({i \in DOMAIN available : IsAliasWithId(available[i], alias_id)})
         IN  IF index # 0
             THEN Fulfilled(<<available[index]>>, transition, swap_remove(available, index))
             ELSE Failed(UnfulfillableRequirement(ReqAlias(alias_id, transition)), available)

fulfill_nft_requirement(nft_id, available, selected) ==
    IF \E i \in DOMAIN selected : IsNftWithId(selected[i], nft_id)
    THEN Fulfilled(<<>>, "None", available)
    ELSE LET index == First({i \in DOMAIN available : IsNftWithId(available[i], nft_id)})
         IN  IF index # 0
             THEN Fulfilled(<<available[index]>>, "None", swap_remove(available, index))
             ELSE Failed(UnfulfillableRequirement(ReqNft(nft_id)), available)

fulfill_foundry_requirement(foundry_id, available, selected) ==
    IF \E i \in DOMAIN selected : IsFoundryWithId(selected[i], foundry_id)
    THEN Fulfilled(<<>>, "None", available)
    ELSE LET index == First({i \in DOMAIN available : IsFoundryWithId(available[i], foundry_id)})
         IN  IF index # 0
             THEN Fulfilled(<<available[index]>>, "None", swap_remove(available, index))
             ELSE Failed(UnfulfillableRequirement(ReqFoundry(foundry_id)), available)

\* Only basic and NFT outputs carry an Address unlock condition.
has_ed25519_address(input, address) ==
    /\ input.output.kind \in {"basic", "nft"}
    /\ input.output.addr = address

fulfill_ed25519_address_requirement(address, available, selected) ==
    IF \E i \in DOMAIN selected : has_ed25519_address(selected[i], address)
    THEN Fulfilled(<<>>, "None", available)
    ELSE LET basic == First({i \in DOMAIN available :
                                /\ available[i].output.kind = "basic"
                                /\ has_ed25519_address(available[i], address)})
             other == First({i \in DOMAIN available :
                                /\ available[i].output.kind # "basic"
                                /\ has_ed25519_address(available[i], address)})
             index == IF basic # 0 THEN basic ELSE other
         IN  IF index # 0
             THEN Fulfilled(<<available[index]>>, "None", swap_remove(available, index))
             ELSE Failed(UnfulfillableRequirement(ReqSender(address)), available)

\* The earlier revision of the fulfiller (new/requirement/sender.rs): the
\* unlock conditions have to be exactly one Address condition, and the basic
\* input is looked for among the selected inputs.
is_ed25519_address(input, address) ==
    /\ input.output.kind \in {"basic", "nft"}
    /\ input.output.timelock = 0
    /\ ~HasExpiration(input.output)
    /\ input.output.sdr.ret.kind = "none"
    /\ input.output.addr = address

fulfill_ed25519_address_requirement_new(address, available, selected) ==
    IF \E i \in DOMAIN selected : is_ed25519_address(selected[i], address)
    THEN Fulfilled(<<>>, "None", available)
    ELSE LET basic == First({i \in DOMAIN selected :
                                /\ selected[i].output.kind = "basic"
                                /\ is_ed25519_address(selected[i], address)})
             other == First({i \in DOMAIN available :
                                /\ available[i].output.kind # "basic"
                                /\ is_ed25519_address(available[i], address)})
             index == IF basic # 0 THEN basic ELSE other
         IN  IF index # 0
             THEN Fulfilled(<<available[index]>>, "None", swap_remove(available, index))
             ELSE Failed(UnfulfillableRequirement(ReqSender(address)), available)

\* An unfulfillable alias/NFT requirement is reported as the given requirement.
Remap(res, req) ==
    IF ~res.ok /\ res.err.kind = "UnfulfillableRequirement"
    THEN [res EXCEPT !.err = UnfulfillableRequirement(req)]
    ELSE res

fulfill_sender_requirement(address, available, selected) ==
    CASE address.kind = "ed25519" ->
            fulfill_ed25519_address_requirement(address, available, selected)
      [] address.kind = "alias" ->
            Remap(fulfill_alias_requirement(address.id, "State", available, selected),
                  ReqSender(address))
      [] address.kind = "nft" ->
            Remap(fulfill_nft_requirement(address.id, available, selected),
                  ReqSender(address))

fulfill_issuer_requirement(address, available, selected) ==
    Remap(fulfill_sender_requirement(address, available, selected), ReqIssuer(address))

\* (inputs_sum, outputs_sum)
base_token_sums(selected, outs) ==
    <<SumSeq([i \in DOMAIN selected |-> selected[i].output.amount]),
      SumSeq([i \in DOMAIN outs |-> outs[i].amount])>>

\* slice::sort_by on the amount: a stable sort, ascending.
RECURSIVE sort_by_amount(_)
sort_by_amount(v) ==
    IF v = <<>> THEN <<>>
    ELSE LET rest == sort_by_amount(SubSeq(v, 1, Len(v) - 1))
             x == v[Len(v)]
             k == Cardinality({i \in DOMAIN rest : rest[i].output.amount <= x.output.amount})
         IN  insert(rest, k + 1, x)

\* The loop of fulfill_base_token_requirement: inputs are removed from the
\* front of the sorted pool while the difference is not covered.
RECURSIVE PullAmount(_, _, _, _)
PullAmount(diff, newly_covered, newly_selected, available) ==
    IF diff > newly_covered /\ available # <<>>
    THEN PullAmount(diff, newly_covered + available[1].output.amount,
                    Append(newly_selected, available[1]), remove(available, 1))
    ELSE [newly_covered |-> newly_covered, newly_selected |-> newly_selected,
          available |-> available]

\* fulfill_base_token_requirement without "available_inputs.sort_by(amount)".
fulfill_base_token_requirement_unsorted(available, selected, outs) ==
    LET sums == base_token_sums(selected, outs)
    IN  IF sums[1] >= sums[2]
        THEN Fulfilled(<<>>, "None", available)
        ELSE LET diff == sums[2] - sums[1]
                 pulled == PullAmount(diff, 0, <<>>, available)
             IN  IF diff > pulled.newly_covered
                 THEN Failed(ErrAmounts("NotEnoughBalance", pulled.newly_covered, diff),
                             pulled.available)
                 ELSE Fulfilled(pulled.newly_selected, "None", pulled.available)

fulfill_base_token_requirement(available, selected, outs) ==
    LET sums == base_token_sums(selected, outs)
    IN  IF sums[1] >= sums[2]
        THEN Fulfilled(<<>>, "None", available)
        ELSE LET diff == sums[2] - sums[1]
                 pulled == PullAmount(diff, 0, <<>>, sort_by_amount(available))
             IN  IF diff > pulled.newly_covered
                 THEN Failed(ErrAmounts("NotEnoughBalance", pulled.newly_covered, diff),
                             pulled.available)
                 ELSE Fulfilled(pulled.newly_selected, "None", pulled.available)

(***************************************************************************)
(* Native tokens.                                                          *)
(***************************************************************************)
TokenOrder == <<"T1", "TF">>

\* The token a foundry controls (its id is the foundry id).
FoundryToken(o) == "TF"

Max(a, b) == IF a >= b THEN a ELSE b

\* Minted / melted amounts of the selected foundry input a foundry output continues.
FoundryBefore(fo, selected) ==
    LET index == First({i \in DOMAIN selected :
                          IsFoundryWithId(selected[i], FoundryIdOf(fo))})
    IN  IF index = 0 THEN [minted |-> 0, melted |-> 0]
        ELSE [minted |-> selected[index].output.minted,
              melted |-> selected[index].output.melted]

MintedDelta(t, selected, outs) ==
    SumSeq([i \in DOMAIN outs |->
        IF outs[i].kind = "foundry" /\ FoundryToken(outs[i]) = t
        THEN Max(0, outs[i].minted - FoundryBefore(outs[i], selected).minted)
        ELSE 0])

MeltedDelta(t, selected, outs) ==
    SumSeq([i \in DOMAIN outs |->
        IF outs[i].kind = "foundry" /\ FoundryToken(outs[i]) = t
        THEN Max(0, outs[i].melted - FoundryBefore(outs[i], selected).melted)
        ELSE 0])

\* Amount of token t on the input side and on the output side.
in_tokens(t, selected, outs) ==
    SumSeq([i \in DOMAIN selected |-> selected[i].output.tokens[t]])
    + MintedDelta(t, selected, outs)

out_tokens(t, selected, outs) ==
    SumSeq([i \in DOMAIN outs |-> outs[i].tokens[t]]) + MeltedDelta(t, selected, outs)

\* Pulls pool inputs carrying token t, smallest amount of t first, until the
\* deficit is covered or no input carries t.
RECURSIVE PullToken(_, _, _, _)
PullToken(t, deficit, newly_selected, available) ==
    LET carrying == {i \in DOMAIN available : available[i].output.tokens[t] > 0}
    IN  IF deficit > 0 /\ carrying # {}
        THEN LET index == CHOOSE i \in carrying : \A j \in carrying :
                             \/ available[i].output.tokens[t] < available[j].output.tokens[t]
                             \/ /\ available[i].output.tokens[t] = available[j].output.tokens[t]
                                /\ i <= j
             IN  PullToken(t, deficit - available[index].output.tokens[t],
                           Append(newly_selected, available[index]), remove(available, index))
        ELSE [deficit |-> deficit, newly_selected |-> newly_selected,
              available |-> available]

RECURSIVE FulfillTokens(_, _, _, _, _)
FulfillTokens(k, newly_selected, available, selected, outs) ==
    IF k > Len(TokenOrder) THEN Fulfilled(newly_selected, "None", available)
    ELSE LET t == TokenOrder[k]
             have == in_tokens(t, selected \o newly_selected, outs)
             need == out_tokens(t, selected \o newly_selected, outs)
             pulled == PullToken(t, need - have, newly_selected, available)
         IN  IF pulled.deficit > 0
             THEN Failed([ErrAmounts("NotEnoughNativeTokens", need - pulled.deficit, need)
                            EXCEPT !.token = t], pulled.available)
             ELSE FulfillTokens(k + 1, pulled.newly_selected, pulled.available, selected, outs)

fulfill_native_tokens_requirement(available, selected, outs) ==
    FulfillTokens(1, <<>>, available, selected, outs)

(***************************************************************************)
(* Remainder builder.                                                      *)
(***************************************************************************)
NoOutput == OutputBase("none", 0, NoAddr)

\* One basic output per selected input with a storage deposit return.
storage_deposit_returns(selected) ==
    LET with_sdr == SelectSeq(selected, LAMBDA input : input.output.sdr.ret.kind # "none")
    IN  [i \in DOMAIN with_sdr |->
            Basic(with_sdr[i].output.sdr.amount, with_sdr[i].output.sdr.ret)]

\* The caller's remainder address, else the address of the first selected
\* input unlocked by an Ed25519 address.
get_remainder_address(selected, rem_address, t) ==
    IF rem_address.kind # "none" THEN rem_address
    ELSE LET index == First({i \in DOMAIN selected :
                        required_address(selected[i].output, t, "None").kind = "ed25519"})
         IN  IF index = 0 THEN NoAddr ELSE required_address(selected[index].output, t, "None")

Surplus(t, selected, outs) ==
    Max(0, in_tokens(t, selected, outs) - out_tokens(t, selected, outs))

remainder_and_storage_deposit_return_outputs(selected, outs, rem_address, t) ==
    LET sdrs == storage_deposit_returns(selected)
        sums == base_token_sums(selected, outs \o sdrs)
        surplus == [tk \in Tokens |-> Surplus(tk, selected, outs)]
        has_surplus == \E tk \in Tokens : surplus[tk] > 0
        address == get_remainder_address(selected, rem_address, t)
        remainder == [Basic(sums[1] - sums[2], address) EXCEPT !.tokens = surplus]
        required == storage_deposit_minimum(remainder)
        none == [ok |-> TRUE, remainder |-> NoOutput, sdrs |-> sdrs, err |-> NoError]
        fail(err) == [ok |-> FALSE, remainder |-> NoOutput, sdrs |-> sdrs, err |-> err]
    IN  IF sums[1] < sums[2] THEN fail(Err("AmountUnderflow"))
        ELSE IF sums[1] = sums[2] /\ ~has_surplus THEN none
        ELSE IF address.kind = "none" THEN fail(Err("MissingInputWithEd25519Address"))
        ELSE IF sums[1] - sums[2] >= required
             THEN [ok |-> TRUE, remainder |-> remainder, sdrs |-> sdrs, err |-> NoError]
        ELSE IF has_surplus THEN fail(Err("NoBalanceForNativeTokenRemainder"))
        ELSE fail(ErrAmounts("InvalidStorageDepositAmount", sums[1] - sums[2], required))

(***************************************************************************)
(* The working state of a selection, as a record: the fields of            *)
(* InputSelection that select() reads and writes, and the error it         *)
(* returned, if any.                                                       *)
(***************************************************************************)
NoBurn == [some |-> FALSE, aliases |-> {}, nfts |-> {}, foundries |-> {}]
Burn(aliases, nfts, foundries) ==
    [some |-> TRUE, aliases |-> aliases, nfts |-> nfts, foundries |-> foundries]

Raise(st, err) == [st EXCEPT !.err = err]
Failing(st) == st.err.kind # "None"

\* Whether an alias input is state- or governance-transitioned by the outputs:
\* the first alias output with its id decides, by its state index.
is_alias_transition(input, outs) ==
    IF input.output.kind # "alias" THEN "None"
    ELSE LET index == First({i \in DOMAIN outs :
                          outs[i].kind = "alias" /\ outs[i].id = alias_id_non_null(input)})
         IN  IF index = 0 THEN "None"
             ELSE IF outs[index].state_index = input.output.state_index THEN "Governance"
             ELSE "State"

\* The alias or NFT that has to be unlocked in the same transaction for the
\* input to be unlocked, as a requirement (NoReq if it is an Ed25519 address).
\* required_alias_nft_addresses that never asks for the owner.
required_alias_nft_addresses_none(st, input) == NoReq

required_alias_nft_addresses(st, input) ==
    LET required == required_address(input.output, st.timestamp,
                                     is_alias_transition(input, st.outputs))
    IN  CASE required.kind = "alias" -> ReqAlias(required.id, "State")
          [] required.kind = "nft" -> ReqNft(required.id)
          [] OTHER -> NoReq

BurnsChain(st, chain) ==
    \/ chain.kind = "alias" /\ chain.id \in st.burn.aliases
    \/ chain.kind = "nft" /\ chain.id \in st.burn.nfts
    \/ chain.kind = "foundry" /\ chain.id \in st.burn.foundries

\* The successor output of a chain input: a copy with the id set, the sender
\* feature removed and, for an alias under a state transition, the state
\* index advanced.  None (NoOutput) for a basic input, a burned chain, a chain
\* the outputs already continue, and a chain already transitioned.
transition_input(st, input, alias_transition) ==
    LET chain == InputChainId(input)
        o == input.output
    IN  IF \/ o.kind = "basic"
           \/ BurnsChain(st, chain)
           \/ \E i \in DOMAIN st.outputs : OutputChainId(st.outputs[i]) = chain
           \/ chain \in st.automatically_transitioned
        THEN NoOutput
        ELSE CASE o.kind = "alias" ->
                    [o EXCEPT !.id = chain.id, !.sender = NoAddr,
                              !.state_index = IF alias_transition = "Governance"
                                              THEN @ ELSE @ + 1]
               [] o.kind = "nft" -> [o EXCEPT !.id = chain.id, !.sender = NoAddr]
               [] o.kind = "foundry" -> o

\* select_input without "outputs.push(output)".
select_input_without_transition(st, input, alias_transition) ==
    LET requirement == required_alias_nft_addresses(st, input)
        st2 == IF requirement.kind # "None"
               THEN [st EXCEPT !.requirements = Append(@, requirement)]
               ELSE st
    IN  [st2 EXCEPT !.selected_inputs = Append(@, input)]

\* select_input that also asks for the amount to be looked at again.
select_input_requeue(st, input, alias_transition) ==
    LET output == transition_input(st, input, alias_transition)
        st1 == IF output.kind # "none"
               THEN [st EXCEPT !.outputs = Append(@, output),
                               !.automatically_transitioned = @ \cup {InputChainId(input)}]
               ELSE st
        requirement == required_alias_nft_addresses(st1, input)
        st2 == IF requirement.kind # "None"
               THEN [st1 EXCEPT !.requirements = Append(@, requirement)]
               ELSE st1
    IN  [st2 EXCEPT !.selected_inputs = Append(@, input),
                    !.requirements = <<ReqAmount>> \o @ \o <<ReqAmount>>]

select_input(st, input, alias_transition) ==
    LET output == transition_input(st, input, alias_transition)
        st1 == IF output.kind # "none"
               THEN [st EXCEPT !.outputs = Append(@, output),
                               !.automatically_transitioned = @ \cup {InputChainId(input)}]
               ELSE st
        requirement == required_alias_nft_addresses(st1, input)
        st2 == IF requirement.kind # "None"
               THEN [st1 EXCEPT !.requirements = Append(@, requirement)]
               ELSE st1
    IN  [st2 EXCEPT !.selected_inputs = Append(@, input)]

\* for (input, alias_transition) in inputs { self.select_input(..)? }
RECURSIVE select_inputs(_, _)
select_inputs(st, inputs) ==
    IF inputs = <<>> \/ Failing(st) THEN st
    ELSE select_inputs(select_input(st, inputs[1].input, inputs[1].alias_transition),
                       Tail(inputs))

\* The requirements one requested output gives rise to.
OutputRequirements(st, o) ==
    LET inputs == st.available_inputs \o st.selected_inputs
        chain ==
            CASE o.kind = "alias" /\ o.id # 0
                    /\ ~\E i \in DOMAIN st.selected_inputs :
                            IsAliasWithId(st.selected_inputs[i], o.id)
                    -> <<ReqAlias(o.id, "Governance")>>
              [] o.kind = "nft" /\ o.id # 0
                    /\ ~\E i \in DOMAIN st.selected_inputs :
                            IsNftWithId(st.selected_inputs[i], o.id)
                    -> <<ReqNft(o.id)>>
              [] o.kind = "foundry"
                    /\ \E i \in DOMAIN inputs : IsFoundryWithId(inputs[i], FoundryIdOf(o))
                    -> <<ReqFoundry(FoundryIdOf(o))>>
              [] OTHER -> <<>>
        is_created ==
            \/ o.kind \in {"alias", "nft"} /\ o.id = 0
            \/ /\ o.kind = "foundry"
               /\ ~\E i \in DOMAIN inputs : IsFoundryWithId(inputs[i], FoundryIdOf(o))
        sender == IF o.sender.kind # "none" THEN <<ReqSender(o.sender)>> ELSE <<>>
        issuer == IF o.issuer.kind # "none" /\ is_created
                  THEN <<ReqIssuer(o.issuer)>> ELSE <<>>
        alias == IF o.kind = "foundry" THEN <<ReqAlias(o.addr.id, "State")>> ELSE <<>>
    IN  chain \o sender \o issuer \o alias

RECURSIVE OutputsRequirementsFrom(_, _)
OutputsRequirementsFrom(st, k) ==
    IF k > Len(st.outputs) THEN <<>>
    ELSE OutputRequirements(st, st.outputs[k]) \o OutputsRequirementsFrom(st, k + 1)

outputs_requirements(st) ==
    [st EXCEPT !.requirements = @ \o OutputsRequirementsFrom(st, 1)]

\* Sets are walked in ascending order of id.
RECURSIVE SetToSeq(_)
SetToSeq(S) ==
    IF S = {} THEN <<>>
    ELSE LET x == CHOOSE x \in S : \A y \in S : x <= y
         IN  <<x>> \o SetToSeq(S \ {x})

burn_requirements(st) ==
    LET aliases == SetToSeq(st.burn.aliases)
        nfts == SetToSeq(st.burn.nfts)
        foundries == SetToSeq(st.burn.foundries)
    IN  [st EXCEPT !.requirements =
            @ \o [i \in DOMAIN aliases |-> ReqAlias(aliases[i], "Governance")]
              \o [i \in DOMAIN nfts |-> ReqNft(nfts[i])]
              \o [i \in DOMAIN foundries |-> ReqFoundry(foundries[i])]]

\* The dispatch of the requirement loop to the fulfiller of each kind.
fulfill_requirement(st, requirement) ==
    CASE requirement.kind = "Alias" ->
            fulfill_alias_requirement(requirement.id, requirement.transition,
                                      st.available_inputs, st.selected_inputs)
      [] requirement.kind = "Nft" ->
            fulfill_nft_requirement(requirement.id, st.available_inputs, st.selected_inputs)
      [] requirement.kind = "Foundry" ->
            fulfill_foundry_requirement(requirement.id, st.available_inputs,
                                        st.selected_inputs)
      [] requirement.kind = "Sender" ->
            fulfill_sender_requirement(requirement.addr, st.available_inputs,
                                       st.selected_inputs)
      [] requirement.kind = "Issuer" ->
            fulfill_issuer_requirement(requirement.addr, st.available_inputs,
                                       st.selected_inputs)
      [] requirement.kind = "NativeTokens" ->
            fulfill_native_tokens_requirement(st.available_inputs, st.selected_inputs,
                                              st.outputs)
      [] requirement.kind = "Amount" ->
            fulfill_base_token_requirement(st.available_inputs, st.selected_inputs,
                                           st.outputs)

(***************************************************************************)
(* The driver: filter_inputs, init, the loop body, the epilogue.           *)
(***************************************************************************)
\* Aliases are kept; other inputs are kept if they are not time-locked and
\* the address that unlocks them is one of the known addresses.
\* filter_inputs without the is_time_locked test.
filter_inputs_keeping_locked(available, known_addresses, t) ==
    SelectSeq(available, LAMBDA input :
        \/ input.output.kind = "alias"
        \/ /\ input.output.kind \in {"basic", "foundry", "nft"}
           /\ required_address(input.output, t, "None") \in known_addresses)

filter_inputs(available, known_addresses, t) ==
    SelectSeq(available, LAMBDA input :
        \/ input.output.kind = "alias"
        \/ /\ input.output.kind \in {"basic", "foundry", "nft"}
           /\ ~is_time_locked(input.output, t)
           /\ required_address(input.output, t, "None") \in known_addresses)

\* The loop of init over the required inputs, in the order the set yields them.
RECURSIVE select_required_inputs(_, _, _)
select_required_inputs(st, forbidden, order) ==
    IF order = <<>> \/ Failing(st) THEN st
    ELSE LET required_input == order[1]
             index == First({i \in DOMAIN st.available_inputs :
                               st.available_inputs[i].output_id = required_input})
         IN  IF required_input \in forbidden
             THEN Raise(st, ErrId("RequiredInputIsForbidden", required_input))
             ELSE IF index = 0
             THEN Raise(st, ErrId("RequiredInputIsNotAvailable", required_input))
             ELSE select_required_inputs(
                    select_input([st EXCEPT !.available_inputs = swap_remove(@, index)],
                                 st.available_inputs[index], "None"),
                    forbidden, Tail(order))

\* init without "available_inputs.retain(not forbidden)".
init_keeping_forbidden(st, forbidden, order) ==
    LET st1 == [st EXCEPT !.requirements = @ \o <<ReqAmount, ReqNativeTokens>>]
        st2 == select_required_inputs(st1, forbidden, order)
    IN  IF Failing(st2) THEN st2 ELSE burn_requirements(outputs_requirements(st2))

\* init without the loop over the required inputs.
init_without_required(st, forbidden, order) ==
    LET st1 == [st EXCEPT
                  !.requirements = @ \o <<ReqAmount, ReqNativeTokens>>,
                  !.available_inputs =
                      SelectSeq(@, LAMBDA input : input.output_id \notin forbidden)]
    IN  burn_requirements(outputs_requirements(st1))

init(st, forbidden, order) ==
    LET st1 == [st EXCEPT
                  !.requirements = @ \o <<ReqAmount, ReqNativeTokens>>,
                  !.available_inputs =
                      SelectSeq(@, LAMBDA input : input.output_id \notin forbidden)]
        st2 == select_required_inputs(st1, forbidden, order)
    IN  IF Failing(st2) THEN st2 ELSE burn_requirements(outputs_requirements(st2))

\* The address a bech32 string names.
InputAddress(input) == try_from_bech32(input.bech32_address)

\* The alias or NFT address an input owns (NoAddr for a basic or foundry input).
OwnAddress(input) ==
    CASE input.output.kind = "alias" -> AliasAddress(alias_id_non_null(input))
      [] input.output.kind = "nft" -> NftAddress(nft_id_non_null(input))
      [] OTHER -> NoAddr

\* One step of the loop over the inputs with an alias or NFT address.
SortInsert(sorted_inputs, input) ==
    LET unlock_address == InputAddress(input)
        owner == First({i \in DOMAIN sorted_inputs :
                    \/ /\ unlock_address.kind = "alias"
                       /\ IsAliasWithId(sorted_inputs[i], unlock_address.id)
                    \/ /\ unlock_address.kind = "nft"
                       /\ IsNftWithId(sorted_inputs[i], unlock_address.id)})
        alias_or_nft_address == OwnAddress(input)
        dependent == First({i \in DOMAIN sorted_inputs :
                        InputAddress(sorted_inputs[i]) = alias_or_nft_address})
    IN  IF owner # 0 THEN insert(sorted_inputs, owner + 1, input)
        ELSE IF alias_or_nft_address.kind # "none" /\ dependent # 0
             THEN insert(sorted_inputs, dependent, input)
        ELSE Append(sorted_inputs, input)

RECURSIVE SortInsertAll(_, _)
SortInsertAll(sorted_inputs, rest) ==
    IF rest = <<>> THEN sorted_inputs
    ELSE SortInsertAll(SortInsert(sorted_inputs, rest[1]), Tail(rest))

sort_input_signing_data(inputs) ==
    SortInsertAll(
        SelectSeq(inputs, LAMBDA input : InputAddress(input).kind = "ed25519"),
        SelectSeq(inputs, LAMBDA input : InputAddress(input).kind # "ed25519"))

\* loop_iteration without the "?" after fulfill_requirement.
loop_iteration_unchecked(st) ==
    LET requirement == st.requirements[Len(st.requirements)]
        popped == [st EXCEPT !.requirements = SubSeq(@, 1, Len(@) - 1)]
        res == fulfill_requirement(popped, requirement)
    IN  select_inputs([popped EXCEPT !.available_inputs = res.available], res.inputs)

\* One iteration of the requirement loop: pop, fulfill, select.
loop_iteration(st) ==
    LET requirement == st.requirements[Len(st.requirements)]
        popped == [st EXCEPT !.requirements = SubSeq(@, 1, Len(@) - 1)]
        res == fulfill_requirement(popped, requirement)
    IN  IF ~res.ok THEN Raise([popped EXCEPT !.available_inputs = res.available], res.err)
        ELSE select_inputs([popped EXCEPT !.available_inputs = res.available], res.inputs)

\* Result<Selected>
Pending == [status |-> "pending", err |-> NoError, inputs |-> <<>>, outputs |-> <<>>,
            remainder |-> NoOutput]
Failure(err) == [status |-> "err", err |-> err, inputs |-> <<>>, outputs |-> <<>>,
                 remainder |-> NoOutput]
Selected(inputs, outs, remainder) ==
    [status |-> "ok", err |-> NoError, inputs |-> inputs, outputs |-> outs,
     remainder |-> remainder]

\* select without "outputs.extend(storage_deposit_returns)".
finish_without_returns(st, rem_address) ==
    LET rem == remainder_and_storage_deposit_return_outputs(
                   st.selected_inputs, st.outputs, rem_address, st.timestamp)
        with_remainder == IF rem.remainder.kind # "none"
                          THEN Append(st.outputs, rem.remainder) ELSE st.outputs
    IN  IF ~rem.ok THEN Failure(rem.err)
        ELSE Selected(sort_input_signing_data(st.selected_inputs), with_remainder,
                      rem.remainder)

\* select without "outputs.push(remainder.output)".
finish_without_remainder(st, rem_address) ==
    LET rem == remainder_and_storage_deposit_return_outputs(
                   st.selected_inputs, st.outputs, rem_address, st.timestamp)
    IN  IF ~rem.ok THEN Failure(rem.err)
        ELSE Selected(sort_input_signing_data(st.selected_inputs),
                      st.outputs \o rem.sdrs, rem.remainder)

\* select with the storage deposit returns appended before the remainder.
finish_returns_first(st, rem_address) ==
    LET rem == remainder_and_storage_deposit_return_outputs(
                   st.selected_inputs, st.outputs, rem_address, st.timestamp)
        with_returns == st.outputs \o rem.sdrs
    IN  IF ~rem.ok THEN Failure(rem.err)
        ELSE Selected(sort_input_signing_data(st.selected_inputs),
                      IF rem.remainder.kind # "none"
                      THEN Append(with_returns, rem.remainder) ELSE with_returns,
                      rem.remainder)

\* The part of select after the loop.
finish(st, rem_address) ==
    LET rem == remainder_and_storage_deposit_return_outputs(
                   st.selected_inputs, st.outputs, rem_address, st.timestamp)
        with_remainder == IF rem.remainder.kind # "none"
                          THEN Append(st.outputs, rem.remainder) ELSE st.outputs
    IN  IF ~rem.ok THEN Failure(rem.err)
        ELSE Selected(sort_input_signing_data(st.selected_inputs),
                      with_remainder \o rem.sdrs, rem.remainder)

(***************************************************************************)
(* The selections the model is run on: pools and requests drawn from       *)
(* small families of inputs and outputs, in the shape of the repository's  *)
(* input-selection tests, with the builder options applied.                *)
(***************************************************************************)
NoRequired == [some |-> FALSE, ids |-> {}]
Required(ids) == [some |-> TRUE, ids |-> ids]

Ids(inputs) == {input.output_id : input \in inputs}

SubsetsUpTo(S, n) == {x \in SUBSET S : Cardinality(x) <= n}

Config(pool, outs, required, forbidden, b, rem, t) ==
    [available_inputs |-> pool, outputs |-> outs, addresses |-> {AddrA, AddrB},
     required_inputs |-> required, forbidden_inputs |-> forbidden, burn |-> b,
     remainder_address |-> rem, timestamp |-> t]

Now == 2

\* Basic inputs and outputs; required and forbidden inputs.
AmountInputs == {Input(1, Basic(2, AddrA)), Input(2, Basic(2, AddrA)), Input(3, Basic(4, AddrA))}
AmountOutputs == {Basic(2, AddrA), Basic(1, AddrA)}
AmountConfigs ==
    {Config(pool, outs, required, forbidden, NoBurn, NoAddr, Now) :
        pool \in DistinctSeqs(AmountInputs, MaxPool),
        outs \in DistinctSeqs(AmountOutputs, MaxOutputs),
        required \in {NoRequired} \cup
                     {Required(ids) : ids \in SubsetsUpTo(Ids(AmountInputs), MaxRequired)},
        forbidden \in SubsetsUpTo(Ids(AmountInputs), MaxForbidden)}

\* Expiration, storage deposit return, foreign address; senders.
TimeInputs ==
    {Input(1, Basic(2, AddrA)),
     Input(4, WithSdr(Basic(6, AddrA), AddrB, 2)),
     Input(5, WithExpiration(Basic(3, AddrA), AddrB, Now)),
     Input(7, Basic(3, AddrC))}
TimeOutputs ==
    {Basic(2, AddrA), WithSender(Basic(3, AddrA), AddrA), WithSender(Basic(3, AddrA), AddrB)}
TimeConfigs ==
    {Config(pool, outs, NoRequired, {}, NoBurn, rem, t) :
        pool \in DistinctSeqs(TimeInputs, MaxPool),
        outs \in DistinctSeqs(TimeOutputs, MaxOutputs),
        rem \in {NoAddr, AddrB},
        t \in {Now - 1, Now}}

\* Timelock: an input that unlocks at Now, possibly required; a new alias.
LockInputs == {Input(1, Basic(2, AddrA)), Input(6, WithTimelock(Basic(3, AddrA), Now))}
LockOutputs == {Basic(2, AddrA), Basic(3, AddrA), Alias(3, 0, AddrA, 0)}
LockConfigs ==
    {Config(pool, outs, required, {}, NoBurn, NoAddr, t) :
        pool \in DistinctSeqs(LockInputs, MaxPool),
        outs \in DistinctSeqs(LockOutputs, MaxOutputs),
        required \in {NoRequired, Required({6})},
        t \in {Now - 1, Now}}

\* Native tokens.
TokenInputs ==
    {Input(1, Basic(2, AddrA)),
     Input(8, WithTokens(Basic(3, AddrA), "T1", 2)),
     Input(9, WithTokens(Basic(3, AddrA), "T1", 1)),
     Input(10, WithTokens(Basic(3, AddrA), "T1", 1))}
TokenOutputs ==
    {Basic(2, AddrA),
     WithTokens(Basic(3, AddrA), "T1", 1),
     WithTokens(Basic(3, AddrA), "T1", 3),
     WithTokens(Basic(3, AddrA), "T1", 5),
     WithSender(WithTokens(Basic(3, AddrA), "T1", 3), AddrC)}
TokenConfigs ==
    {Config(pool, outs, NoRequired, {}, NoBurn, NoAddr, Now) :
        pool \in DistinctSeqs(TokenInputs, MaxPool),
        outs \in DistinctSeqs(TokenOutputs, MaxOutputs)}

\* Alias: transition, caller-supplied successors, burn, alias-owned input.
AliasInputs ==
    {Input(1, Basic(2, AddrA)),
     Input(11, Alias(3, 1, AddrA, 0)),
     Input(14, Basic(2, AliasAddress(1))),
     Input(18, Basic(3, AddrA))}
AliasOutputs ==
    {Basic(2, AddrA),
     Alias(3, 1, AddrA, 1),
     Alias(3, 1, AddrA, 0),
     WithSender(Basic(3, AddrA), AliasAddress(1))}
AliasBurns == {NoBurn, Burn({}, {}, {}), Burn({1}, {}, {})}
AliasConfigs ==
    {Config(pool, outs, NoRequired, {}, b, NoAddr, Now) :
        pool \in DistinctSeqs(AliasInputs, MaxPool),
        outs \in DistinctSeqs(AliasOutputs, MaxOutputs),
        b \in AliasBurns}

\* Foundry: mint, melt, burn, with the controlling alias.
FoundryInputs ==
    {Input(11, Alias(3, 1, AddrA, 0)),
     Input(12, Foundry(3, 1, 1, 2, 0)),
     Input(16, WithTokens(Basic(3, AddrA), "TF", 2)),
     Input(18, Basic(3, AddrA))}
FoundryOutputs ==
    {Foundry(3, 1, 1, 2, 1),
     Foundry(3, 1, 1, 3, 0),
     Alias(3, 1, AddrA, 0),
     WithSender(Basic(3, AddrA), AliasAddress(1))}
FoundryBurns ==
    {NoBurn, Burn({1}, {}, {}), Burn({}, {}, {FoundryIdOf(Foundry(3, 1, 1, 2, 0))})}
FoundryConfigs ==
    {Config(pool, outs, NoRequired, {}, b, NoAddr, Now) :
        pool \in DistinctSeqs(FoundryInputs, MaxPool),
        outs \in DistinctSeqs(FoundryOutputs, MaxOutputs),
        b \in FoundryBurns}

\* NFT.
NftInputs ==
    {Input(1, Basic(2, AddrA)),
     Input(13, Nft(3, 1, AddrA)),
     Input(15, Nft(3, 0, AddrA)),
     Input(17, Basic(2, NftAddress(1)))}
NftOutputs ==
    {Basic(2, AddrA),
     Nft(3, 1, AddrB),
     WithIssuer(Nft(4, 0, AddrA), AddrA),
     WithSender(Basic(3, AddrA), NftAddress(1))}
NftConfigs ==
    {Config(pool, outs, NoRequired, {}, b, NoAddr, Now) :
        pool \in DistinctSeqs(NftInputs, MaxPool),
        outs \in DistinctSeqs(NftOutputs, MaxOutputs),
        b \in {NoBurn, Burn({}, {1}, {})}}

\* A chain of ownership: a basic input owned by an NFT, owned by an NFT,
\* owned by an NFT, owned by an alias, controlled by an Ed25519 address.
DeepPool ==
    <<Input(11, Alias(3, 1, AddrA, 0)),
      Input(21, Nft(3, 2, AliasAddress(1))),
      Input(22, Nft(3, 3, NftAddress(2))),
      Input(23, Nft(3, 4, NftAddress(3))),
      Input(24, Basic(2, NftAddress(4)))>>
DeepConfigs ==
    {Config(DeepPool, <<Basic(2, AddrA)>>, required, {}, NoBurn, NoAddr, Now) :
        required \in {NoRequired} \cup
                     {Required(ids) : ids \in SubsetsUpTo(Ids(Range(DeepPool)), MaxRequired)}}

\* Owners out of reach: an alias that may be forbidden, an NFT at a foreign
\* address, and a basic input owned by each of them.
OwnerInputs ==
    {Input(11, Alias(3, 1, AddrA, 0)),
     Input(14, Basic(2, AliasAddress(1))),
     Input(25, Nft(3, 5, AddrC)),
     Input(26, Basic(2, NftAddress(5)))}
OwnerOutputs == {Basic(2, AddrA), WithSender(Basic(3, AddrA), AddrC)}
OwnerConfigs ==
    {Config(pool, outs, required, forbidden, NoBurn, NoAddr, Now) :
        pool \in DistinctSeqs(OwnerInputs, MaxPool),
        outs \in DistinctSeqs(OwnerOutputs, MaxOutputs),
        required \in {NoRequired, Required({14}), Required({26}), Required({11, 14})},
        forbidden \in {{}, {11}}}

Configs ==
    AmountConfigs \cup TimeConfigs \cup LockConfigs \cup TokenConfigs \cup AliasConfigs
    \cup FoundryConfigs \cup NftConfigs \cup DeepConfigs \cup OwnerConfigs

(***************************************************************************)
(* InputSelection::new and the builder methods.                            *)
(***************************************************************************)
\* The addresses of new(): the caller's, and the alias/NFT addresses of the pool.
KnownAddresses(cfg) ==
    cfg.addresses \cup
    {OwnAddress(cfg.available_inputs[i]) : i \in
        {j \in DOMAIN cfg.available_inputs :
            cfg.available_inputs[j].output.kind \in {"alias", "nft"}}}

Construct(cfg) ==
    /\ available_inputs = cfg.available_inputs
    /\ required_inputs = cfg.required_inputs
    /\ forbidden_inputs = cfg.forbidden_inputs
    /\ selected_inputs = <<>>
    /\ outputs = cfg.outputs
    /\ addresses = KnownAddresses(cfg)
    /\ burn = cfg.burn
    /\ remainder_address = cfg.remainder_address
    /\ timestamp = cfg.timestamp
    /\ requirements = <<>>
    /\ automatically_transitioned = {}

\* The variables of get_inputs, retry_until_included and the StrongholdAdapter
\* before anything of them runs.
ScanIdle ==
    /\ ledger = <<>> /\ local_time = 0 /\ gap_index = 0 /\ empty_address_count = 0
    /\ cached_error = NoError /\ address_index = 0 /\ loop_index = 0 /\ attempts = <<>>
RetryIdle ==
    /\ message_ids = <<>> /\ messages_with_id = <<>> /\ attempt = 0
    /\ max_attempts = 0 /\ message_ids_len = 0 /\ msg_index = 0
    /\ metadata = NoMetadata /\ retried = <<>>
StrongholdIdle ==
    /\ key = 0 /\ timeout_task = 0 /\ tasks = <<>> /\ calls = 0

Init ==
    /\ args \in Configs
    /\ Construct(args)
    /\ pc = "select"
    /\ result = Pending
    /\ first = Pending
    /\ initial_requirements = 0 /\ iterations = 0
    /\ ScanIdle /\ RetryIdle /\ StrongholdIdle

(***************************************************************************)
(* select(), step by step.                                                 *)
(***************************************************************************)
St == [available_inputs |-> available_inputs, selected_inputs |-> selected_inputs,
       outputs |-> outputs, requirements |-> requirements,
       automatically_transitioned |-> automatically_transitioned, burn |-> burn,
       timestamp |-> timestamp, err |-> NoError]

\* Writes the working state back; an error ends select().
Continue(st, next_pc) ==
    /\ available_inputs' = st.available_inputs
    /\ selected_inputs' = st.selected_inputs
    /\ outputs' = st.outputs
    /\ requirements' = st.requirements
    /\ automatically_transitioned' = st.automatically_transitioned
    /\ IF Failing(st)
       THEN pc' = "done" /\ result' = Failure(st.err)
       ELSE pc' = next_pc /\ result' = result

\* SelectFilter with the two checks at the head of select exchanged.
SelectFilterOutputsFirst ==
    /\ pc = "select"
    /\ LET filtered == filter_inputs(available_inputs, addresses, timestamp)
       IN  /\ available_inputs' = filtered
           /\ IF outputs = <<>> /\ ~burn.some
              THEN pc' = "done" /\ result' = Failure(Err("NoOutputsProvided"))
              ELSE IF filtered = <<>>
              THEN pc' = "done" /\ result' = Failure(Err("NoAvailableInputsProvided"))
              ELSE pc' = "init" /\ result' = result
    /\ UNCHANGED <<required_inputs, forbidden_inputs, selected_inputs, outputs, addresses,
                   burn, remainder_address, timestamp, requirements,
                   automatically_transitioned, args, first, initial_requirements,
                   iterations>>
    /\ UNCHANGED <<scan_vars, retry_vars, stronghold_vars>>

\* filter_inputs and the two checks at the head of select.
SelectFilter ==
    /\ pc = "select"
    /\ LET filtered == filter_inputs(available_inputs, addresses, timestamp)
       IN  /\ available_inputs' = filtered
           /\ IF filtered = <<>>
              THEN pc' = "done" /\ result' = Failure(Err("NoAvailableInputsProvided"))
              ELSE IF outputs = <<>> /\ ~burn.some
              THEN pc' = "done" /\ result' = Failure(Err("NoOutputsProvided"))
              ELSE pc' = "init" /\ result' = result
    /\ UNCHANGED <<required_inputs, forbidden_inputs, selected_inputs, outputs, addresses,
                   burn, remainder_address, timestamp, requirements,
                   automatically_transitioned, args, first, initial_requirements,
                   iterations>>
    /\ UNCHANGED <<scan_vars, retry_vars, stronghold_vars>>

\* init: the required inputs are taken in the iteration order of the HashSet.
SelectInit ==
    /\ pc = "init"
    /\ \E order \in Orders(required_inputs.ids) :
          /\ Continue(init(St, forbidden_inputs, order), "loop")
          /\ initial_requirements' = Len(init(St, forbidden_inputs, order).requirements)
    /\ required_inputs' = NoRequired
    /\ UNCHANGED <<forbidden_inputs, addresses, burn, remainder_address, timestamp,
                   args, first, iterations>>
    /\ UNCHANGED <<scan_vars, retry_vars, stronghold_vars>>

\* One iteration of the requirement loop.
SelectLoop ==
    /\ pc = "loop"
    /\ requirements # <<>>
    /\ Continue(loop_iteration(St), "loop")
    /\ iterations' = iterations + 1
    /\ UNCHANGED <<required_inputs, forbidden_inputs, addresses, burn, remainder_address,
                   timestamp, args, first, initial_requirements>>
    /\ UNCHANGED <<scan_vars, retry_vars, stronghold_vars>>

\* The loop is over: remainder, storage deposit returns, sorted inputs.
SelectFinish ==
    /\ pc = "loop"
    /\ requirements = <<>>
    /\ pc' = "done"
    /\ result' = finish(St, remainder_address)
    /\ UNCHANGED <<available_inputs, required_inputs, forbidden_inputs, selected_inputs,
                   outputs, addresses, burn, remainder_address, timestamp, requirements,
                   automatically_transitioned, args, first, initial_requirements,
                   iterations>>
    /\ UNCHANGED <<scan_vars, retry_vars, stronghold_vars>>

Next == SelectFilter \/ SelectInit \/ SelectLoop \/ SelectFinish

Spec == Init /\ [][Next]_vars

\* select() is sequential code that runs to its return once called.  Next is
\* enabled exactly while pc # "done" (its guards are pc = "select", pc = "init"
\* and pc = "loop" with the stack empty or not), and every step of Next moves
\* pc or counts an iteration, so Advance is the control flow of Next and weak
\* fairness of Advance is weak fairness of Next.  The calls are those of the
\* families with ownership chains, where selecting an input adds requirements.
TerminatingConfigs == DeepConfigs \cup OwnerConfigs \cup LockConfigs

InitTerminating == Init /\ args \in TerminatingConfigs

Advance ==
    /\ pc # "done"
    /\ pc' \in {"init", "loop", "done"}
    /\ iterations' \in {iterations, iterations + 1}

SpecTerminating == InitTerminating /\ [][Next]_vars /\ WF_<<pc, iterations>>(Advance)

\* A second selection is built from equal arguments and run.
SelectAgain ==
    /\ pc = "done"
    /\ first.status = "pending"
    /\ first' = result
    /\ available_inputs' = args.available_inputs
    /\ required_inputs' = args.required_inputs
    /\ forbidden_inputs' = args.forbidden_inputs
    /\ selected_inputs' = <<>>
    /\ outputs' = args.outputs
    /\ addresses' = KnownAddresses(args)
    /\ burn' = args.burn
    /\ remainder_address' = args.remainder_address
    /\ timestamp' = args.timestamp
    /\ requirements' = <<>>
    /\ automatically_transitioned' = {}
    /\ pc' = "select"
    /\ result' = Pending
    /\ args' = args
    /\ initial_requirements' = 0
    /\ iterations' = 0
    /\ UNCHANGED <<scan_vars, retry_vars, stronghold_vars>>

NextTwice == Next \/ SelectAgain

SpecTwice == Init /\ [][NextTwice]_vars

(***************************************************************************)
(* ClientBlockBuilder::get_inputs (src/api/block_builder/input_selection/  *)
(* automatic.rs): inputs for the UTXO chains, then a scan of the wallet's  *)
(* addresses, ADDRESS_GAP_RANGE indexes per round, with a selection        *)
(* attempt after every address that has outputs.                           *)
(***************************************************************************)
ADDRESS_GAP_RANGE == 2   \* address indexes per round (20 in the client)
MaxLedger == 3           \* unspent outputs the node knows

\* get_addresses: the address at an index of the public / internal chain.
WalletAddress(addr_index, internal) ==
    Ed25519(10 + 2 * addr_index + (IF internal THEN 1 ELSE 0))

\* Chain::from_u32_hardened([HD_WALLET_TYPE, coin_type, account_index,
\* internal, address_index]): the two components that vary within a builder.
Chain(internal, addr_index) == [some |-> TRUE, internal |-> internal, address_index |-> addr_index]
NoChain == [some |-> FALSE, internal |-> FALSE, address_index |-> 0]

ScannedInput(entry, chain, str_address) ==
    [output_id |-> entry.output_id, output |-> entry.output, chain |-> chain,
     bech32_address |-> str_address]

\* UnlockConditions::return_address_expired: the return address once the
\* expiration time is reached (NoAddr = None).
return_address_expired(output, t) ==
    IF t >= output.expiration.ts THEN output.expiration.ret ELSE NoAddr

\* is_output_address_unlockable with the expiration branch left out.
is_output_address_unlockable_no_expiration(output, address, t) ==
    IF output.kind = "treasury" THEN FALSE
    ELSE IF is_time_locked(output, t) THEN FALSE
    ELSE output.addr = address

is_output_address_unlockable(output, address, t) ==
    IF output.kind = "treasury" THEN FALSE
    ELSE IF is_time_locked(output, t) THEN FALSE
    ELSE IF HasExpiration(output) /\ return_address_expired(output, t) # NoAddr
    THEN return_address_expired(output, t) = address
    ELSE output.addr = address

\* address_outputs: two indexer queries for basic outputs without a storage
\* deposit return, by Address condition and by expiration return address.
address_outputs(known, str_address) ==
    SelectSeq(known, LAMBDA e :
        /\ e.output.kind = "basic"
        /\ to_bech32(e.output.addr) = str_address
        /\ e.output.sdr.ret.kind = "none")
    \o SelectSeq(known, LAMBDA e :
        /\ e.output.kind = "basic"
        /\ HasExpiration(e.output)
        /\ to_bech32(e.output.expiration.ret) = str_address
        /\ e.output.sdr.ret.kind = "none")

\* public[0], internal[0], public[1], internal[1], ... of the round at gap.
public_and_internal_addresses(gap) ==
    [k \in 1..(2 * ADDRESS_GAP_RANGE) |->
        [str_address |-> to_bech32(WalletAddress(gap + (k - 1) \div 2, (k - 1) % 2 = 1)),
         internal |-> (k - 1) % 2 = 1]]

\* The inputs one address contributes, with the chain get_inputs writes.
unlockable_inputs(address_outs, str_address, internal, addr_index, t) ==
    LET unlockable == SelectSeq(address_outs, LAMBDA e :
            is_output_address_unlockable(e.output, try_from_bech32(str_address), t))
    IN  [i \in DOMAIN unlockable |->
            ScannedInput(unlockable[i], Chain(internal, addr_index), str_address)]

\* get_utxo_chains_inputs: the current alias output of every alias the
\* request transitions.
ChainInput == [output_id |-> 30, output |-> Alias(3, 1, AddrA, 0), chain |-> NoChain,
               bech32_address |-> to_bech32(AddrA)]
get_utxo_chains_inputs(outs) ==
    IF \E i \in DOMAIN outs : outs[i].kind = "alias" /\ outs[i].id = 1
    THEN <<ChainInput>> ELSE <<>>

\* try_select_inputs as tests/input_selection/basic_outputs.rs shows it:
\* NotEnoughBalance { found, required } if the inputs hold less than the
\* outputs need, InsufficientStorageDepositAmount (a BlockError) if what is
\* left over is less than the deposit of a remainder output, else Ok.
try_select_inputs(inputs, outs) ==
    LET found == SumSeq([i \in DOMAIN inputs |-> inputs[i].output.amount])
        required == SumSeq([i \in DOMAIN outs |-> outs[i].amount])
    IN  IF found < required
        THEN Failure(ErrAmounts("NotEnoughBalance", found, required))
        ELSE IF found > required
                /\ found - required < storage_deposit_minimum(Basic(found - required, AddrA))
        THEN Failure(ErrAmounts("InsufficientStorageDepositAmount", found - required,
                                storage_deposit_minimum(Basic(found - required, AddrA))))
        ELSE Selected(inputs, outs, NoOutput)

\* The errors after which get_inputs goes on to the next address.
DeficitErrors ==
    {"NotEnoughBalance", "NotEnoughNativeTokens", "NoBalanceForNativeTokenRemainder",
     "ConsolidationRequired", "InvalidStorageDepositAmount"}

\* The ledgers and requests the scan is run on.
PickFrom(s, S) ==
    LET F[i \in 0..Len(s)] ==
            IF i = 0 THEN <<>> ELSE IF i \in S THEN Append(F[i - 1], s[i]) ELSE F[i - 1]
    IN  F[Len(s)]
LedgerCatalogue ==
    <<[output_id |-> 31, output |-> Basic(2, WalletAddress(0, FALSE))],
      [output_id |-> 32, output |-> Basic(2, WalletAddress(0, TRUE))],
      [output_id |-> 33, output |-> Basic(3, WalletAddress(1, FALSE))],
      [output_id |-> 34, output |-> WithTimelock(Basic(3, WalletAddress(1, TRUE)), Now + 1)],
      [output_id |-> 35, output |-> WithExpiration(Basic(3, WalletAddress(0, FALSE)),
                                                   WalletAddress(2, FALSE), Now)]>>
Ledgers == {PickFrom(LedgerCatalogue, S) : S \in SubsetsUpTo(DOMAIN LedgerCatalogue, MaxLedger)}
ScanRequests ==
    {<<Basic(2, AddrB)>>, <<Basic(5, AddrB)>>, <<Basic(8, AddrB)>>,
     <<Alias(3, 1, AddrA, 1), Basic(3, AddrB)>>}
InitialAddressIndexes == {0, 1}

\* The InputSelection variables get_inputs, retry_until_included and the
\* StrongholdAdapter do not use.
SelectionUnused ==
    /\ required_inputs = NoRequired /\ forbidden_inputs = {} /\ selected_inputs = <<>>
    /\ addresses = {} /\ burn = NoBurn /\ remainder_address = NoAddr /\ timestamp = 0
    /\ requirements = <<>> /\ automatically_transitioned = {}
    /\ args = Config(<<>>, <<>>, NoRequired, {}, NoBurn, NoAddr, 0)
    /\ first = Pending
    /\ initial_requirements = 0 /\ iterations = 0
unused_vars == <<required_inputs, forbidden_inputs, selected_inputs, addresses, burn,
                 remainder_address, timestamp, requirements, automatically_transitioned,
                 args, first, initial_requirements, iterations>>

InitGetInputs ==
    /\ ledger \in Ledgers
    /\ local_time \in {Now - 1, Now, Now + 1}
    /\ outputs \in ScanRequests
    /\ gap_index \in InitialAddressIndexes
    /\ available_inputs = get_utxo_chains_inputs(outputs)
    /\ empty_address_count = 0 /\ cached_error = NoError
    /\ address_index = 0 /\ loop_index = 0 /\ attempts = <<>>
    /\ pc = "get_inputs" /\ result = Pending
    /\ SelectionUnused /\ RetryIdle /\ StrongholdIdle

\* "Try to select inputs with required inputs for utxo chains alone".
GetInputsFirst ==
    /\ pc = "get_inputs"
    /\ LET r == try_select_inputs(available_inputs, outputs)
       IN  /\ attempts' = Append(attempts, r)
           /\ IF r.status = "ok"
              THEN pc' = "done" /\ result' = r
              ELSE pc' = "round" /\ result' = result
    /\ UNCHANGED <<available_inputs, outputs, ledger, local_time, gap_index,
                   empty_address_count, cached_error, address_index, loop_index>>
    /\ UNCHANGED <<unused_vars, retry_vars, stronghold_vars>>

\* The head of 'input_selection: the addresses of the round are derived.
GetInputsRound ==
    /\ pc = "round"
    /\ address_index' = gap_index
    /\ loop_index' = 0
    /\ pc' = "address"
    /\ UNCHANGED <<available_inputs, outputs, result, ledger, local_time, gap_index,
                   empty_address_count, cached_error, attempts>>
    /\ UNCHANGED <<unused_vars, retry_vars, stronghold_vars>>

\* One pass of "for (index, (str_address, internal)) in ... .enumerate()".
\* `continue` skips the increment of address_index at the end of the body.
GetInputsAddress ==
    /\ pc = "address"
    /\ LET entry == public_and_internal_addresses(gap_index)[loop_index + 1]
           address_outs == address_outputs(ledger, entry.str_address)
           pool == available_inputs \o
                   unlockable_inputs(address_outs, entry.str_address, entry.internal,
                                     address_index, local_time)
           r == try_select_inputs(pool, outputs)
           next_pc == IF loop_index + 1 = 2 * ADDRESS_GAP_RANGE THEN "gap" ELSE "address"
           incremented == IF loop_index % 2 = 1 THEN address_index + 1 ELSE address_index
       IN  IF address_outs = <<>>
           THEN /\ empty_address_count' = empty_address_count + 1
                /\ address_index' = incremented
                /\ loop_index' = loop_index + 1
                /\ pc' = next_pc
                /\ UNCHANGED <<available_inputs, cached_error, attempts, result>>
           ELSE /\ empty_address_count' = 0
                /\ available_inputs' = pool
                /\ attempts' = Append(attempts, r)
                /\ IF r.status = "ok"
                   THEN /\ pc' = "done" /\ result' = r
                        /\ UNCHANGED <<cached_error, address_index, loop_index>>
                   ELSE IF r.err.kind \in DeficitErrors
                   THEN /\ cached_error' = r.err
                        /\ loop_index' = loop_index + 1
                        /\ pc' = next_pc
                        /\ UNCHANGED <<address_index, result>>
                   ELSE /\ pc' = "done" /\ result' = r
                        /\ UNCHANGED <<cached_error, address_index, loop_index>>
    /\ UNCHANGED <<outputs, ledger, local_time, gap_index>>
    /\ UNCHANGED <<unused_vars, retry_vars, stronghold_vars>>

\* After the for loop: the next round, or the end of the scan.
GetInputsGap ==
    /\ pc = "gap"
    /\ gap_index' = gap_index + ADDRESS_GAP_RANGE
    /\ IF empty_address_count >= ADDRESS_GAP_RANGE * 2
       THEN /\ pc' = "done"
            /\ result' = Failure(IF cached_error = NoError THEN Err("NoInputs")
                                 ELSE cached_error)
       ELSE pc' = "round" /\ result' = result
    /\ UNCHANGED <<available_inputs, outputs, ledger, local_time, empty_address_count,
                   cached_error, address_index, loop_index, attempts>>
    /\ UNCHANGED <<unused_vars, retry_vars, stronghold_vars>>

NextGetInputs == GetInputsFirst \/ GetInputsRound \/ GetInputsAddress \/ GetInputsGap

SpecGetInputs == InitGetInputs /\ [][NextGetInputs]_vars

(***************************************************************************)
(* Client::retry_until_included (iota-client/src/client.rs): the           *)
(* attachments of a message are checked for inclusion, attempt after       *)
(* attempt; the node answers every metadata query as it likes.             *)
(***************************************************************************)
MaxAttempts == 3         \* largest max_attempts argument

RetryOk(messages) == [status |-> "ok", err |-> NoError, messages |-> messages]
RetryErr(kind) == [status |-> "err", err |-> Err(kind), messages |-> <<>>]

Metadatas == {Metadata(i, p, r) : i \in BOOLEAN, p \in BOOLEAN, r \in BOOLEAN}
MessageIds == {1, 2}

\* What a promote_unchecked / reattach_unchecked call leaves at the node.
Retried(kind, message_id, in_attempt) ==
    [kind |-> kind, message_id |-> message_id, attempt |-> in_attempt]
\* The id of the message reattach_unchecked returns.
Reattached(message_id) == 10 * message_id

\* Client::retry: promote, else reattach, else NoNeedPromoteOrReattach.
retry(md) ==
    IF md.should_promote THEN "promote"
    ELSE IF md.should_reattach THEN "reattach"
    ELSE "NoNeedPromoteOrReattach"

InitRetry ==
    /\ \E message_id \in MessageIds : message_ids = <<message_id>>
    /\ max_attempts \in 1..MaxAttempts
    /\ messages_with_id = <<>> /\ attempt = 0 /\ message_ids_len = 0 /\ msg_index = 0
    /\ metadata = NoMetadata /\ retried = <<>>
    /\ pc = "attempt" /\ result = Pending
    /\ available_inputs = <<>> /\ outputs = <<>>
    /\ SelectionUnused /\ ScanIdle /\ StrongholdIdle

\* "for _ in 0..max_attempts": sleep, then the attachments known so far.
RetryAttempt ==
    /\ pc = "attempt"
    /\ IF attempt < max_attempts
       THEN /\ attempt' = attempt + 1
            /\ message_ids_len' = Len(message_ids)
            /\ msg_index' = 0
            /\ pc' = "check"
            /\ result' = result
       ELSE /\ pc' = "done"
            /\ result' = RetryErr("TangleInclusionError")
            /\ UNCHANGED <<attempt, message_ids_len, msg_index>>
    /\ UNCHANGED <<message_ids, messages_with_id, max_attempts, metadata, retried>>
    /\ UNCHANGED <<available_inputs, outputs, unused_vars, scan_vars, stronghold_vars>>

\* One pass of "for (index, msg_id) in message_ids.clone().iter().enumerate()".
RetryCheck ==
    /\ pc = "check"
    /\ \E md \in Metadatas :
          /\ metadata' = md
          /\ IF md.ledger_inclusion_state
             THEN /\ pc' = "done"
                  /\ result' = RetryOk(messages_with_id)
                  /\ UNCHANGED <<message_ids, messages_with_id, retried, msg_index>>
             ELSE /\ IF msg_index = message_ids_len /\ md.should_promote
                     THEN /\ retried' = Append(retried,
                                 Retried("promote", message_ids[Len(message_ids)], attempt))
                          /\ UNCHANGED <<message_ids, messages_with_id>>
                     ELSE IF msg_index = message_ids_len /\ md.should_reattach
                     THEN /\ retried' = Append(retried,
                                 Retried("reattach", message_ids[Len(message_ids)], attempt))
                          /\ message_ids' =
                                 Append(message_ids, Reattached(message_ids[Len(message_ids)]))
                          /\ messages_with_id' =
                                 Append(messages_with_id,
                                        Reattached(message_ids[Len(message_ids)]))
                     ELSE UNCHANGED <<message_ids, messages_with_id, retried>>
                  /\ msg_index' = msg_index + 1
                  /\ pc' = IF msg_index + 1 = message_ids_len THEN "attempt" ELSE "check"
                  /\ result' = result
    /\ UNCHANGED <<attempt, message_ids_len, max_attempts>>
    /\ UNCHANGED <<available_inputs, outputs, unused_vars, scan_vars, stronghold_vars>>

NextRetry == RetryAttempt \/ RetryCheck

SpecRetry == InitRetry /\ [][NextRetry]_vars

(***************************************************************************)
(* StrongholdAdapter::set_password and task_key_clear (stronghold/mod.rs). *)
(* The adapter has a timeout; set_password runs on one Tokio worker while  *)
(* the key-clearing tasks run on others.  A statement that takes a lock is *)
(* one step.  JoinHandle::abort only marks the task: a task that waits (in *)
(* sleep, or inside kill_stronghold) is dropped without running again, a   *)
(* task that is being polled runs on to its next await that is not ready,  *)
(* and taking a free tokio Mutex is ready at once.                         *)
(***************************************************************************)
MaxCalls == 2

\* The password of the n-th set_password call; the builder's password is Password(0).
Password(n) == n + 1

\* derive_key_from_password, as the password it derives from.
derive_key_from_password(password) == password

Task(position, aborted) == [pc |-> position, aborted |-> aborted]

\* JoinHandle::abort
abort(ts, t) == [ts EXCEPT ![t].aborted = TRUE]

\* The adapter some time after try_build with password() and timeout(): its
\* first key-clearing task sleeps and its handle is kept.
InitStronghold ==
    /\ key = derive_key_from_password(Password(0))
    /\ tasks = <<Task("sleep", FALSE)>>
    /\ timeout_task = 1
    /\ calls = 0
    /\ pc = "idle" /\ result = Pending
    /\ available_inputs = <<>> /\ outputs = <<>>
    /\ SelectionUnused /\ ScanIdle /\ RetryIdle

\* "*self.key.lock().await = Some(derive_key_from_password(password))"
SetPasswordKey ==
    /\ pc = "idle"
    /\ calls < MaxCalls
    /\ calls' = calls + 1
    /\ key' = derive_key_from_password(Password(calls + 1))
    /\ pc' = "abort"
    /\ UNCHANGED <<timeout_task, tasks, result>>
    /\ UNCHANGED <<available_inputs, outputs, unused_vars, scan_vars, retry_vars>>

\* "if let Some(timeout_task) = self.timeout_task.lock().await.take() { timeout_task.abort(); }"
SetPasswordAbort ==
    /\ pc = "abort"
    /\ timeout_task' = 0
    /\ tasks' = IF timeout_task # 0 THEN abort(tasks, timeout_task) ELSE tasks
    /\ pc' = "spawn"
    /\ UNCHANGED <<key, calls, result>>
    /\ UNCHANGED <<available_inputs, outputs, unused_vars, scan_vars, retry_vars>>

\* "tokio::spawn(task_key_clear(task_self, stronghold, key, timeout))", the right
\* side of the assignment, evaluated before the lock on the left is taken.
SetPasswordSpawn ==
    /\ pc = "spawn"
    /\ tasks' = Append(tasks, Task("sleep", FALSE))
    /\ pc' = "store"
    /\ UNCHANGED <<key, timeout_task, calls, result>>
    /\ UNCHANGED <<available_inputs, outputs, unused_vars, scan_vars, retry_vars>>

\* "*self.timeout_task.lock().await = Some(..)", and set_password returns.
SetPasswordStore ==
    /\ pc = "store"
    /\ timeout_task' = Len(tasks)
    /\ pc' = "idle"
    /\ UNCHANGED <<key, tasks, calls, result>>
    /\ UNCHANGED <<available_inputs, outputs, unused_vars, scan_vars, retry_vars>>

\* "tokio::time::sleep(timeout).await" is over and a worker polls the task.
TaskWake ==
    \E t \in DOMAIN tasks :
        /\ tasks[t].pc = "sleep"
        /\ ~tasks[t].aborted
        /\ tasks' = [tasks EXCEPT ![t].pc = "purge"]
        /\ UNCHANGED <<key, timeout_task, calls, pc, result>>
        /\ UNCHANGED <<available_inputs, outputs, unused_vars, scan_vars, retry_vars>>

\* "if let Some(mut key) = key.lock().await.take() { key.zeroize(); }"
TaskPurge ==
    \E t \in DOMAIN tasks :
        /\ tasks[t].pc = "purge"
        /\ key' = 0
        /\ tasks' = [tasks EXCEPT ![t].pc = "kill"]
        /\ UNCHANGED <<timeout_task, calls, pc, result>>
        /\ UNCHANGED <<available_inputs, outputs, unused_vars, scan_vars, retry_vars>>

\* "stronghold.lock().await.kill_stronghold(..).await" has completed.
TaskKill ==
    \E t \in DOMAIN tasks :
        /\ tasks[t].pc = "kill"
        /\ tasks' = [tasks EXCEPT ![t].pc = "take"]
        /\ UNCHANGED <<key, timeout_task, calls, pc, result>>
        /\ UNCHANGED <<available_inputs, outputs, unused_vars, scan_vars, retry_vars>>

\* "task_self.lock().await.take();" and the task ends.
TaskTake ==
    \E t \in DOMAIN tasks :
        /\ tasks[t].pc = "take"
        /\ timeout_task' = 0
        /\ tasks' = [tasks EXCEPT ![t].pc = "finished"]
        /\ UNCHANGED <<key, calls, pc, result>>
        /\ UNCHANGED <<available_inputs, outputs, unused_vars, scan_vars, retry_vars>>

\* An aborted task that waits in sleep or inside kill_stronghold is dropped.
TaskCancel ==
    \E t \in DOMAIN tasks :
        /\ tasks[t].aborted
        /\ tasks[t].pc \in {"sleep", "kill"}
        /\ tasks' = [tasks EXCEPT ![t].pc = "cancelled"]
        /\ UNCHANGED <<key, timeout_task, calls, pc, result>>
        /\ UNCHANGED <<available_inputs, outputs, unused_vars, scan_vars, retry_vars>>

NextStronghold ==
    \/ SetPasswordKey \/ SetPasswordAbort \/ SetPasswordSpawn \/ SetPasswordStore
    \/ TaskWake \/ TaskPurge \/ TaskKill \/ TaskTake \/ TaskCancel

SpecStronghold == InitStronghold /\ [][NextStronghold]_vars

(***************************************************************************)
(* Properties.                                                             *)
(***************************************************************************)
Succeeded == pc = "done" /\ result.status = "ok"

InputAmounts(inputs) == SumSeq([i \in DOMAIN inputs |-> inputs[i].output.amount])
OutputAmounts(outs) == SumSeq([i \in DOMAIN outs |-> outs[i].amount])

\* The outputs select() appended to the caller's.
AddedOutputs == SubSeq(result.outputs, Len(args.outputs) + 1, Len(result.outputs))

\* C1: on every successful select() the base amounts of the selected inputs
\* and of the final outputs (transitions, remainder and storage deposit
\* returns included) have the same sum.
C1_BaseAmountBalanced ==
    Succeeded => InputAmounts(result.inputs) = OutputAmounts(result.outputs)

\* C1 witness: a success whose outputs include a transition and a remainder
\* next to the caller's.
C1_Witness ==
    /\ Succeeded
    /\ result.remainder.kind # "none"
    /\ automatically_transitioned # {}

\* Indices of the alias and NFT inputs of the result.
ChainInputs ==
    {i \in DOMAIN result.inputs : result.inputs[i].output.kind \in {"alias", "nft"}}

Burned(chain) == BurnsChain([burn |-> args.burn], chain)

\* Indices of the outputs that carry a chain id.
Continuing(outs, chain) == {i \in DOMAIN outs : OutputChainId(outs[i]) = chain}

\* C2: on success every selected alias or NFT whose chain id is not burned has
\* exactly one output with that chain id, the caller's if the caller supplied
\* it and a synthesized one otherwise; a burned one has no such output.
C2_ChainContinuity ==
    Succeeded =>
        \A i \in ChainInputs :
            LET chain == InputChainId(result.inputs[i])
            IN  IF Burned(chain)
                THEN Continuing(result.outputs, chain) = {}
                ELSE /\ Cardinality(Continuing(result.outputs, chain)) = 1
                     /\ Continuing(args.outputs, chain) # {}
                            => Continuing(AddedOutputs, chain) = {}

TokenSum(outs, t) == SumSeq([i \in DOMAIN outs |-> outs[i].tokens[t]])

\* Amount of token t on the outputs minus the amount on the inputs.
TokenNet(t) ==
    TokenSum(result.outputs, t)
    - TokenSum([i \in DOMAIN result.inputs |-> result.inputs[i].output], t)

\* Minted minus melted, over the foundry outputs of token t, relative to the
\* foundry input each one continues (a new foundry starts from zero).
FoundryNet(t) ==
    SumSeq([i \in DOMAIN result.outputs |->
        LET fo == result.outputs[i]
            before == FoundryBefore(fo, result.inputs)
        IN  IF fo.kind = "foundry" /\ FoundryToken(fo) = t
            THEN (fo.minted - before.minted) - (fo.melted - before.melted)
            ELSE 0])

\* C3: on success, for every native token, the amount on the outputs minus the
\* amount on the inputs equals what the foundries of the transaction minted
\* minus what they melted; a surplus on the input side is in the remainder.
C3_NativeTokensConserved ==
    Succeeded => \A t \in Tokens : TokenNet(t) = FoundryNet(t)

\* C3 witness: a success in which a foundry minted or melted and the
\* remainder carries a native token.
C3_Witness ==
    /\ Succeeded
    /\ FoundryNet("TF") # 0
    /\ result.remainder.kind # "none"
    /\ result.remainder.tokens["TF"] > 0

\* C4: every output of a successful select(), the caller's included, has a
\* base amount of at least its storage deposit minimum.
C4_StorageDepositMet ==
    Succeeded =>
        \A i \in DOMAIN result.outputs :
            result.outputs[i].amount >= storage_deposit_minimum(result.outputs[i])

\* The addresses that unlock an input at the timestamp of the selection: for
\* an alias its state controller and its governor, else the address or, once
\* expired, the return address.
Unlockers(input) ==
    IF input.output.kind = "alias" THEN {input.output.addr, input.output.gov}
    ELSE {required_address(input.output, args.timestamp, "None")}

\* An input stands for address a if a unlocks it or a is the alias / NFT
\* address of the input itself.
StandsFor(input, a) == a \in Unlockers(input) \/ OwnAddress(input) = a

\* C5: on success, for every output with a Sender or Issuer feature of address
\* a, some selected input is unlocked by a at the timestamp of the selection.
C5_SenderIssuerUnlocked ==
    Succeeded =>
        \A i \in DOMAIN result.outputs :
            \A a \in {result.outputs[i].sender, result.outputs[i].issuer} \ {NoAddr} :
                \E j \in DOMAIN result.inputs : StandsFor(result.inputs[j], a)

\* C6: in the inputs of a successful select(), every input unlocked by an
\* alias or NFT address comes strictly after the input that owns that chain.
C6_SortedForReferenceUnlocks ==
    Succeeded =>
        \A i \in DOMAIN result.inputs :
            LET a == InputAddress(result.inputs[i])
            IN  a.kind \in {"alias", "nft"} =>
                    \A j \in DOMAIN result.inputs :
                        OwnAddress(result.inputs[j]) = a => j < i

\* C7: two selections built from equal arguments (pool, outputs, required and
\* forbidden inputs, burn, addresses, timestamp) end in equal results or
\* equal errors.
C7_Deterministic ==
    (pc = "done" /\ first.status # "pending") => result = first

\* C8: on success every required input is among the selected inputs and no
\* forbidden input is.
C8_RequiredAndForbidden ==
    Succeeded =>
        /\ args.required_inputs.ids \subseteq Ids(Range(result.inputs))
        /\ Ids(Range(result.inputs)) \cap args.forbidden_inputs = {}

\* C8 witness: a success with a required input and with a forbidden input
\* that the pool offered.
C8_Witness ==
    /\ Succeeded
    /\ args.required_inputs.ids # {}
    /\ args.forbidden_inputs \cap Ids(Range(args.available_inputs)) # {}

\* The storage deposit returns of the inputs selected by the loop.
LoopReturns == storage_deposit_returns(selected_inputs)

\* r: what the selected inputs hold beyond the outputs and the returns.
BaseRemainder ==
    InputAmounts(selected_inputs) - OutputAmounts(outputs) - OutputAmounts(LoopReturns)

LoopSurplus == [t \in Tokens |-> Surplus(t, selected_inputs, outputs)]
HasSurplus == \E t \in Tokens : LoopSurplus[t] > 0

\* D: the storage deposit minimum of the remainder output.
RemainderDeposit ==
    storage_deposit_minimum([Basic(BaseRemainder, AddrA) EXCEPT !.tokens = LoopSurplus])

RemainderCases ==
    /\ (BaseRemainder = 0 /\ ~HasSurplus) =>
            /\ result'.status = "ok"
            /\ result'.remainder.kind = "none"
            /\ result'.outputs = outputs \o LoopReturns
    /\ BaseRemainder >= RemainderDeposit =>
            /\ result'.status = "ok"
            /\ result'.remainder.kind = "basic"
            /\ result'.remainder.amount = BaseRemainder
            /\ result'.remainder.tokens = LoopSurplus
            /\ result'.outputs = Append(outputs, result'.remainder) \o LoopReturns
    /\ (0 < BaseRemainder /\ BaseRemainder < RemainderDeposit /\ ~HasSurplus) =>
            /\ result'.status = "err"
            /\ result'.err = ErrAmounts("InvalidStorageDepositAmount", BaseRemainder,
                                        RemainderDeposit)
    /\ (HasSurplus /\ 0 <= BaseRemainder /\ BaseRemainder < RemainderDeposit) =>
            /\ result'.status = "err"
            /\ result'.err.kind = "NoBalanceForNativeTokenRemainder"

\* C9: after the requirement loop, with r the base amount of the selected
\* inputs minus that of the outputs (storage deposit returns counted among the
\* outputs) and D the storage deposit minimum of the remainder: r = 0 without
\* token surplus adds no remainder; r >= D adds exactly one remainder carrying
\* r and every surplus; 0 < r < D without surplus fails with the storage
\* deposit error of r and D; a surplus with r < D fails with
\* NoBalanceForNativeTokenRemainder.
C9_RemainderCases == [][SelectFinish => RemainderCases]_vars

\* C9 witness: a success with an input that has a storage deposit return and
\* with a remainder.
C9_Witness ==
    /\ Succeeded
    /\ result.remainder.kind # "none"
    /\ LoopReturns # <<>>

\* Ids of the aliases that control a foundry of the requested outputs or of
\* the selected inputs.
ControllingAliases ==
    {args.outputs[i].addr.id : i \in {j \in DOMAIN args.outputs :
                                        args.outputs[j].kind = "foundry"}}
    \cup {selected_inputs[i].output.addr.id : i \in {j \in DOMAIN selected_inputs :
                                        selected_inputs[j].output.kind = "foundry"}}

AliasSelected(id) == \E j \in DOMAIN result.inputs : IsAliasWithId(result.inputs[j], id)

AliasOffered(id) ==
    \E j \in DOMAIN args.available_inputs : IsAliasWithId(args.available_inputs[j], id)

\* The alias outputs of the result with this id all advance the state index
\* of the selected alias input by one.
StateAdvanced(id) ==
    \A j \in DOMAIN result.inputs : \A k \in DOMAIN result.outputs :
        (IsAliasWithId(result.inputs[j], id) /\ OutputChainId(result.outputs[k]) = ChainId("alias", id))
            => result.outputs[k].state_index = result.inputs[j].output.state_index + 1

TopRequirement ==
    IF pc = "loop" /\ requirements # <<>> THEN requirements[Len(requirements)] ELSE NoReq

\* Chain ids the fulfillers are asked for: those of the pools and one more.
ProbeIds == {1, 2, 9, Hash(15)}

\* What a chain fulfiller owes on the current pool and selected inputs, given
\* the matching selected inputs, the matching pool inputs and the error.
ChainContract(res, in_selected, in_pool, err) ==
    IF in_selected # {}
    THEN res.ok /\ res.inputs = <<>> /\ res.available = available_inputs
    ELSE IF in_pool # {}
    THEN /\ res.ok
         /\ Len(res.inputs) = 1
         /\ res.inputs[1].input \in in_pool
         /\ Len(res.available) = Len(available_inputs) - 1
         /\ Range(res.available) = Range(available_inputs) \ {res.inputs[1].input}
    ELSE ~res.ok /\ res.err = err /\ res.available = available_inputs

AliasNftContract ==
    \A id \in ProbeIds :
        /\ ChainContract(
              fulfill_alias_requirement(id, "State", available_inputs, selected_inputs),
              {x \in Range(selected_inputs) : IsAliasWithId(x, id)},
              {x \in Range(available_inputs) : IsAliasWithId(x, id)},
              UnfulfillableRequirement(ReqAlias(id, "State")))
        /\ ChainContract(
              fulfill_nft_requirement(id, available_inputs, selected_inputs),
              {x \in Range(selected_inputs) : IsNftWithId(x, id)},
              {x \in Range(available_inputs) : IsNftWithId(x, id)},
              UnfulfillableRequirement(ReqNft(id)))

\* The effect of a loop iteration that pops an Alias or an Nft requirement.
ChainStep(in_selected, in_pool) ==
    IF in_selected # {}
    THEN selected_inputs' = selected_inputs /\ available_inputs' = available_inputs
    ELSE IF in_pool # {}
    THEN /\ Len(selected_inputs') = Len(selected_inputs) + 1
         /\ selected_inputs'[Len(selected_inputs')] \in in_pool
         /\ SubSeq(selected_inputs', 1, Len(selected_inputs)) = selected_inputs
         /\ Range(available_inputs') =
                Range(available_inputs) \ {selected_inputs'[Len(selected_inputs')]}
    ELSE /\ pc' = "done"
         /\ result' = Failure(UnfulfillableRequirement(TopRequirement))
         /\ selected_inputs' = selected_inputs
         /\ available_inputs' = available_inputs

AliasNftStep ==
    /\ TopRequirement.kind = "Alias" =>
            ChainStep({x \in Range(selected_inputs) : IsAliasWithId(x, TopRequirement.id)},
                      {x \in Range(available_inputs) : IsAliasWithId(x, TopRequirement.id)})
    /\ TopRequirement.kind = "Nft" =>
            ChainStep({x \in Range(selected_inputs) : IsNftWithId(x, TopRequirement.id)},
                      {x \in Range(available_inputs) : IsNftWithId(x, TopRequirement.id)})

\* C11: fulfill_alias_requirement(id), and fulfill_nft_requirement(id) alike:
\* with a selected input of that id it returns no input and leaves the pool
\* as it is; else, with such an input in the pool, it removes exactly that
\* input from the pool and returns it; else it fails with
\* UnfulfillableRequirement(Alias(id)) (Nft(id)) and pool and selected inputs
\* stay as they are.  Checked on every pool and selection select() goes
\* through, and on every loop iteration that pops such a requirement.
C11_AliasNftFulfillers == [][AliasNftContract /\ (SelectLoop => AliasNftStep)]_vars

\* C11 witness: the alias fulfiller has moved the alias of the pool to the
\* selected inputs, and asked again it returns nothing.
C11_Witness ==
    /\ pc = "loop"
    /\ ~args.required_inputs.some
    /\ selected_inputs # <<>>
    /\ IsAliasWithId(selected_inputs[1], 1)
    /\ \E i \in DOMAIN args.outputs : args.outputs[i].kind = "alias"
    /\ available_inputs # <<>>
    /\ fulfill_alias_requirement(1, "State", available_inputs, selected_inputs).inputs = <<>>

\* The address that unlocks an input at the timestamp of the selection.
UnlockedBy(input, a) == required_address(input.output, timestamp, "None") = a

\* What the sender fulfiller owes for the Ed25519 address a on the current
\* pool: one input moved, a basic input with address a if the pool has one,
\* else another input unlocked by a; an error only if there is none.
SenderContract(res, a) ==
    LET basics == {x \in Range(available_inputs) :
                      x.output.kind = "basic" /\ x.output.addr = a}
        unlocked == {x \in Range(available_inputs) : UnlockedBy(x, a)}
        moved(S) == /\ res.ok
                    /\ Len(res.inputs) = 1
                    /\ res.inputs[1].input \in S
                    /\ Len(res.available) = Len(available_inputs) - 1
                    /\ Range(res.available) = Range(available_inputs) \ {res.inputs[1].input}
    IN  IF basics # {} THEN moved(basics)
        ELSE IF unlocked # {} THEN moved(unlocked)
        ELSE ~res.ok /\ res.err = UnfulfillableRequirement(ReqSender(a))

\* The loop is about to pop a Sender requirement for an Ed25519 address that
\* no selected input satisfies.
SenderPending ==
    /\ TopRequirement.kind = "Sender"
    /\ TopRequirement.addr.kind = "ed25519"
    /\ ~\E x \in Range(selected_inputs) :
            UnlockedBy(x, TopRequirement.addr) \/ x.output.addr = TopRequirement.addr

CoreSenderContract ==
    SenderPending =>
        SenderContract(
            fulfill_ed25519_address_requirement(TopRequirement.addr, available_inputs,
                                                selected_inputs),
            TopRequirement.addr)

NewSenderContract ==
    SenderPending =>
        SenderContract(
            fulfill_ed25519_address_requirement_new(TopRequirement.addr, available_inputs,
                                                    selected_inputs),
            TopRequirement.addr)

\* C12: when no selected input satisfies a Sender requirement for the Ed25519
\* address a, the sender fulfiller of either revision moves exactly one input
\* from the pool to its result: a basic input with address a if the pool has
\* one, and only otherwise another input unlocked by a; it fails with
\* UnfulfillableRequirement(Sender(a)) only if no pool input is unlocked by a.
C12_SenderPrefersBasic == CoreSenderContract /\ NewSenderContract

\* What the amount fulfiller returns on the current pool, selection and outputs.
AmountResult == fulfill_base_token_requirement(available_inputs, selected_inputs, outputs)

Deficit == OutputAmounts(outputs) - InputAmounts(selected_inputs)

\* The inputs a fulfiller returned, without the transition they carry.
Returned(res) == [i \in DOMAIN res.inputs |-> res.inputs[i].input]

\* A sequence of inputs is a prefix of the pool in ascending amount: it is
\* ascending, no input left in the pool is smaller than a taken one, and taken
\* and left inputs together are the pool.
AscendingPrefix(taken, left) ==
    /\ \A i, j \in DOMAIN taken : i < j => taken[i].output.amount <= taken[j].output.amount
    /\ \A x \in Range(taken), y \in Range(left) : x.output.amount <= y.output.amount
    /\ Range(taken) \cup Range(left) = Range(available_inputs)
    /\ Len(taken) + Len(left) = Len(available_inputs)

\* C13 as stated: the amount fulfiller returns nothing and leaves the pool as
\* it is when the selected inputs cover the outputs' base amount; otherwise it
\* returns the shortest prefix of the pool in ascending base amount that covers
\* the deficit, and never an input that was not needed: without any one of the
\* returned inputs the deficit is not covered.
C13_NeverUnneededInput ==
    pc = "loop" =>
        IF Deficit <= 0
        THEN AmountResult.ok /\ AmountResult.inputs = <<>>
             /\ AmountResult.available = available_inputs
        ELSE AmountResult.ok =>
                LET taken == Returned(AmountResult)
                IN  /\ taken # <<>>
                    /\ AscendingPrefix(taken, AmountResult.available)
                    /\ InputAmounts(taken) >= Deficit
                    /\ \A k \in DOMAIN taken :
                            InputAmounts(taken) - taken[k].output.amount < Deficit

\* C13: the amount fulfiller returns nothing and leaves the pool as it is
\* when the selected inputs cover the outputs' base amount; otherwise what it
\* returns is the shortest prefix of the pool in ascending base amount that
\* covers the deficit: the prefix covers it, and without its last input it
\* does not, so no input is taken after the deficit is covered.
C13_ShortestAscendingPrefix ==
    pc = "loop" =>
        IF Deficit <= 0
        THEN AmountResult.ok /\ AmountResult.inputs = <<>>
             /\ AmountResult.available = available_inputs
        ELSE AmountResult.ok =>
                LET taken == Returned(AmountResult)
                IN  /\ taken # <<>>
                    /\ AscendingPrefix(taken, AmountResult.available)
                    /\ InputAmounts(taken) >= Deficit
                    /\ InputAmounts(SubSeq(taken, 1, Len(taken) - 1)) < Deficit

\* The caller asked for plain basic outputs and required no input, so every
\* selected input was selected by the amount fulfiller.
OnlyAmount ==
    /\ ~args.required_inputs.some
    /\ \A i \in DOMAIN args.outputs :
            /\ args.outputs[i].kind = "basic"
            /\ args.outputs[i].sender = NoAddr
            /\ args.outputs[i].tokens = NoTokens

\* C13 witness: the amount fulfiller has selected two inputs of a pool of
\* three and left the largest one, which was not needed.
C13_Witness ==
    /\ pc = "loop"
    /\ requirements = <<>>
    /\ OnlyAmount
    /\ Len(selected_inputs) = 2
    /\ Len(available_inputs) = 1
    /\ available_inputs[1].output.amount > selected_inputs[2].output.amount

\* The storage deposit minimum of a remainder output without native tokens.
PotentialRemainderDeposit == storage_deposit_minimum(Basic(0, AddrA))

\* C14: when the amount fulfiller has to pull inputs it pulls until the
\* selected base amount is at least the outputs' plus the storage deposit of
\* the potential remainder: it does not stop at a positive surplus below that
\* deposit while the pool still holds enough to reach it.
C14_CoversRemainderDeposit ==
    (pc = "loop" /\ TopRequirement.kind = "Amount" /\ Deficit > 0 /\ AmountResult.ok) =>
        LET surplus == InputAmounts(Returned(AmountResult)) - Deficit
        IN  (0 < surplus /\ surplus < PotentialRemainderDeposit) =>
                surplus + InputAmounts(AmountResult.available) < PotentialRemainderDeposit

\* C15: among pool inputs of equal base amount the amount fulfiller takes the
\* one with the smaller output id first, whatever the order of the pool: no
\* input is left in the pool while one of equal amount and larger output id
\* is taken.
C15_TiesByOutputId ==
    (pc = "loop" /\ TopRequirement.kind = "Amount" /\ Deficit > 0 /\ AmountResult.ok) =>
        \A x \in Range(Returned(AmountResult)), y \in Range(AmountResult.available) :
            x.output.amount = y.output.amount => x.output_id < y.output_id

\* The inputs select() can use: those the caller supplied that pass the
\* unlockability filter and are not forbidden.
Selectable ==
    SelectSeq(filter_inputs(args.available_inputs, KnownAddresses(args), args.timestamp),
              LAMBDA input : input.output_id \notin args.forbidden_inputs)

\* C16: select() fails with NotEnoughBalance{found, required} only when all
\* selectable inputs together do not cover the base amount of the outputs,
\* with found the base amount of all inputs gathered (the selected ones and
\* everything pulled from the pool), required the base amount the outputs
\* need, and found < required; and a selection whose selectable inputs cannot
\* cover the outputs does not succeed.
C16_NotEnoughBalance ==
    pc = "done" =>
        /\ result.err.kind = "NotEnoughBalance" =>
                /\ result.err.found = InputAmounts(Selectable)
                /\ result.err.required = OutputAmounts(outputs)
                /\ result.err.found < result.err.required
        /\ (InputAmounts(Selectable) < OutputAmounts(args.outputs)) => result.status = "err"

\* Amount of token t over the inputs the caller supplied, and over the
\* outputs the caller asked for.
SuppliedTokens(t) ==
    TokenSum([i \in DOMAIN args.available_inputs |-> args.available_inputs[i].output], t)
RequestedTokens(t) == TokenSum(args.outputs, t)

NotEnoughTokens(t) ==
    /\ result.status = "err"
    /\ result.err.kind = "NotEnoughNativeTokens"
    /\ result.err.token = t
    /\ result.err.found = SuppliedTokens(t)
    /\ result.err.required = RequestedTokens(t)

Filtered == filter_inputs(args.available_inputs, KnownAddresses(args), args.timestamp)

\* Required ids that are forbidden, and required ids that are neither
\* forbidden nor in the filtered pool.
RequiredForbidden == args.required_inputs.ids \cap args.forbidden_inputs
RequiredMissing == args.required_inputs.ids \ (args.forbidden_inputs \cup Ids(Range(Filtered)))

\* select() has failed in init on one of the offending required ids, before
\* any requirement was popped.
FailedOnRequiredInput ==
    /\ result.status = "err"
    /\ result.err \in {ErrId("RequiredInputIsForbidden", id) : id \in RequiredForbidden}
                      \cup {ErrId("RequiredInputIsNotAvailable", id) : id \in RequiredMissing}
    /\ Len(requirements) >= 2
    /\ SubSeq(requirements, 1, 2) = <<ReqAmount, ReqNativeTokens>>

\* C18 as stated: when a required output id is forbidden or is not in the
\* pool the filter left, select() fails with RequiredInputIsForbidden(id) or
\* RequiredInputIsNotAvailable(id) of such an id, produces no Selected and
\* processes no requirement.
C18_RequiredInputErrors ==
    pc = "done" =>
        (RequiredForbidden \cup RequiredMissing # {} => FailedOnRequiredInput)

\* C18: when a required output id is forbidden or is not in the pool the
\* filter left, select() fails without a Selected and without processing a
\* requirement: with NoAvailableInputsProvided if the filtered pool is empty,
\* else with NoOutputsProvided if there is neither an output nor a burn, else
\* with RequiredInputIsForbidden(id) of a required id that is forbidden or
\* RequiredInputIsNotAvailable(id) of one that is not forbidden and not in
\* the pool.
C18_RequiredInputErrorsAfterHeadChecks ==
    pc = "done" =>
        (RequiredForbidden \cup RequiredMissing # {} =>
            IF Filtered = <<>>
            THEN result = Failure(Err("NoAvailableInputsProvided")) /\ requirements = <<>>
            ELSE IF args.outputs = <<>> /\ ~args.burn.some
            THEN result = Failure(Err("NoOutputsProvided")) /\ requirements = <<>>
            ELSE FailedOnRequiredInput)

\* C18 witness: of two required inputs one was selected and the other was
\* found forbidden.
C18_Witness ==
    /\ pc = "done"
    /\ result.err.kind = "RequiredInputIsForbidden"
    /\ Cardinality(args.required_inputs.ids) = 2
    /\ selected_inputs # <<>>

\* C19: whenever the pool is empty after the unlockability filter, supplied
\* empty or emptied by the filter, select() returns NoAvailableInputsProvided,
\* also when there are no outputs and no burn.
C19_NoAvailableInputsFirst ==
    (pc = "done" /\ Filtered = <<>>) => result = Failure(Err("NoAvailableInputsProvided"))

\* C19 witness: every supplied input was removed by the filter, there are no
\* outputs and no burn, and select() has returned NoAvailableInputsProvided.
C19_Witness ==
    /\ pc = "done"
    /\ args.available_inputs # <<>>
    /\ Filtered = <<>>
    /\ args.outputs = <<>>
    /\ ~args.burn.some
    /\ result = Failure(Err("NoAvailableInputsProvided"))

\* The burn names no alias, NFT or foundry (or there is none).
BurnIsEmpty ==
    args.burn.aliases = {} /\ args.burn.nfts = {} /\ args.burn.foundries = {}

\* C20: with a non-empty pool, select() returns NoOutputsProvided whenever
\* the outputs are empty and the burn is empty: no burn was supplied or the
\* supplied burn names nothing.
C20_NoOutputsAndNothingToBurn ==
    (pc = "done" /\ Filtered # <<>> /\ args.outputs = <<>> /\ BurnIsEmpty) =>
        result = Failure(Err("NoOutputsProvided"))

\* The address that can unlock an output at time t, and whether a timelock
\* still holds it, written out from the unlock conditions.
EffectiveUnlocker(o, t) ==
    IF o.expiration.ret.kind # "none" /\ t >= o.expiration.ts THEN o.expiration.ret ELSE o.addr
NotTimeLocked(o, t) == o.timelock = 0 \/ ~(t < o.timelock)
ScanAddresses ==
    {WalletAddress(i, b) : i \in 0..(2 + 2 * ADDRESS_GAP_RANGE), b \in BOOLEAN} \cup {AddrA}

\* C21: is_output_address_unlockable(output, address, t) is true exactly when
\* the output is not time-locked at t and address is its effective unlocker
\* at t (the expiration return address from the expiration time on, else the
\* address of the Address unlock condition); so the scan collects from an
\* address exactly the outputs found there that meet both conditions.
C21_UnlockableIffEffectiveUnlocker ==
    /\ \A i \in DOMAIN ledger : \A a \in ScanAddresses :
          is_output_address_unlockable(ledger[i].output, a, local_time)
              <=> (NotTimeLocked(ledger[i].output, local_time)
                   /\ a = EffectiveUnlocker(ledger[i].output, local_time))
    /\ \A i \in DOMAIN available_inputs :
          available_inputs[i].chain.some =>
              /\ NotTimeLocked(available_inputs[i].output, local_time)
              /\ to_bech32(EffectiveUnlocker(available_inputs[i].output, local_time))
                     = available_inputs[i].bech32_address

\* The scan has collected the expired output at its return address and has
\* passed the address of a time-locked output without collecting it.
C21_Witness ==
    /\ \E i \in DOMAIN available_inputs :
          /\ available_inputs[i].output_id = 35
          /\ available_inputs[i].bech32_address = to_bech32(WalletAddress(2, FALSE))
    /\ \E i \in DOMAIN ledger : ledger[i].output_id = 34
    /\ \A i \in DOMAIN available_inputs : available_inputs[i].output_id # 34
    /\ gap_index >= 2

\* The error of the most recent attempt that failed for a deficit, if any.
DeficitAttempts == {i \in DOMAIN attempts :
                       attempts[i].status = "err" /\ attempts[i].err.kind \in DeficitErrors}
LastDeficitAttempt == CHOOSE i \in DeficitAttempts : \A j \in DeficitAttempts : j <= i
ScanStopped ==
    /\ pc = "done" /\ result.status = "err"
    /\ empty_address_count >= 2 * ADDRESS_GAP_RANGE
    /\ result.err.kind \in DeficitErrors \cup {"NoInputs"}

\* C22: when get_inputs stops scanning (2 x ADDRESS_GAP_RANGE consecutive
\* empty addresses) without a successful selection, it returns the deficit
\* error of the most recent failed selection attempt if any attempt failed
\* with one, NoInputs only if none did; an attempt that fails with any other
\* error ends get_inputs at once with that error.
C22_LastDeficitErrorOrNoInputs ==
    /\ ScanStopped =>
          result.err = IF DeficitAttempts # {} THEN attempts[LastDeficitAttempt].err
                       ELSE Err("NoInputs")
    /\ \A i \in DOMAIN attempts :
          (attempts[i].status = "err" /\ attempts[i].err.kind \notin DeficitErrors) =>
              i = Len(attempts) /\ pc = "done" /\ result = attempts[i]

\* The index and the chain (public / internal) of a wallet address.
IsWalletAddress(str_address, addr_index, internal) ==
    str_address = to_bech32(WalletAddress(addr_index, internal))
ScannedIndexes == 0..(gap_index + ADDRESS_GAP_RANGE)

\* C29: every input get_inputs collects from a scanned address carries a
\* derivation chain with the real index of that address and the change flag
\* of its chain, whatever happened at the addresses scanned before it.
C29_ChainHasRealAddressIndex ==
    \A i \in DOMAIN available_inputs :
        available_inputs[i].chain.some =>
            \E n \in ScannedIndexes, internal \in BOOLEAN :
                /\ IsWalletAddress(available_inputs[i].bech32_address, n, internal)
                /\ available_inputs[i].chain.address_index = n
                /\ available_inputs[i].chain.internal = internal

\* An attempt of retry_until_included is over and no attachment had a ledger
\* inclusion state; metadata is that of the latest attachment.
AttemptWithoutInclusion ==
    pc = "attempt" /\ attempt >= 1 /\ ~metadata.ledger_inclusion_state
RetriedInAttempt(kind) ==
    /\ retried # <<>>
    /\ retried[Len(retried)].kind = kind
    /\ retried[Len(retried)].attempt = attempt

\* C23: in each attempt of retry_until_included in which no known attachment
\* has a ledger inclusion state, the latest attachment is promoted if its
\* metadata says should_promote and otherwise reattached if it says
\* should_reattach; every reattached message is among the attachments checked
\* later and in the list that is returned.
C23_LatestAttachmentRetried ==
    /\ AttemptWithoutInclusion /\ retry(metadata) = "promote" => RetriedInAttempt("promote")
    /\ AttemptWithoutInclusion /\ retry(metadata) = "reattach" =>
          /\ RetriedInAttempt("reattach")
          /\ message_ids[Len(message_ids)] = Reattached(retried[Len(retried)].message_id)
    /\ \A i \in DOMAIN retried :
          retried[i].kind = "reattach" =>
              /\ Reattached(retried[i].message_id) \in Range(message_ids)
              /\ Reattached(retried[i].message_id) \in Range(messages_with_id)
    /\ pc = "done" /\ result.status = "ok" => result.messages = messages_with_id

\* The addresses select() may unlock with: the caller's, and the alias / NFT
\* address of every alias / NFT input of the supplied pool.
SuppliedChainAddresses ==
    {[kind |-> args.available_inputs[i].output.kind,
      id |-> IF args.available_inputs[i].output.id = 0
             THEN Hash(args.available_inputs[i].output_id)
             ELSE args.available_inputs[i].output.id] :
        i \in {j \in DOMAIN args.available_inputs :
                  args.available_inputs[j].output.kind \in {"alias", "nft"}}}
UnlockableInput(input) ==
    /\ NotTimeLocked(input.output, args.timestamp)
    /\ input.output.kind \in {"basic", "nft", "foundry"} =>
          EffectiveUnlocker(input.output, args.timestamp)
              \in args.addresses \cup SuppliedChainAddresses

\* C24: no input that is time-locked at the selection timestamp is ever
\* selected or returned, no run ends with a Locked / TimelockNotExpired
\* error, and every selected basic, NFT or foundry input has an effective
\* unlocker at that timestamp among the caller's addresses and the alias /
\* NFT addresses of the supplied pool.
C24_SelectedInputsUnlockable ==
    /\ \A i \in DOMAIN selected_inputs : UnlockableInput(selected_inputs[i])
    /\ \A i \in DOMAIN result.inputs : UnlockableInput(result.inputs[i])
    /\ result.err.kind \notin {"Locked", "TimelockNotExpired"}

\* A selection succeeded on a pool that held a time-locked input, with the
\* other input of the pool.
C24_Witness ==
    /\ Succeeded
    /\ result.inputs # <<>>
    /\ \E i \in DOMAIN args.available_inputs :
          ~NotTimeLocked(args.available_inputs[i].output, args.timestamp)

\* The alias / NFT input that owns an input: its chain id is the id of the
\* alias or NFT address that unlocks the input.
IsOwnerOf(owner, input) ==
    /\ owner.output.kind = EffectiveUnlocker(input.output, args.timestamp).kind
    /\ EffectiveUnlocker(input.output, args.timestamp).id =
          IF owner.output.id = 0 THEN Hash(owner.output_id) ELSE owner.output.id
ChainOwned(input) == EffectiveUnlocker(input.output, args.timestamp).kind \in {"alias", "nft"}
\* A selected input whose owner is neither selected nor in the pool.
Orphaned ==
    \E i \in DOMAIN selected_inputs :
        /\ ChainOwned(selected_inputs[i])
        /\ \A j \in DOMAIN selected_inputs : ~IsOwnerOf(selected_inputs[j], selected_inputs[i])
        /\ \A j \in DOMAIN available_inputs : ~IsOwnerOf(available_inputs[j], selected_inputs[i])

\* C25: on every successful select() each selected input unlocked by an alias
\* or NFT address comes with the alias / NFT input of that id (and so on along
\* the chain of owners); when the owner of a selected input is neither
\* selected nor available, select() ends with UnfulfillableRequirement.
C25_OwnersSelected ==
    /\ Succeeded =>
          \A i \in DOMAIN result.inputs :
              ChainOwned(result.inputs[i]) =>
                  \E j \in DOMAIN result.inputs : IsOwnerOf(result.inputs[j], result.inputs[i])
    /\ pc = "done" /\ Orphaned =>
          result.status = "err" /\ result.err.kind = "UnfulfillableRequirement"


\* C25 (amended): as C25, except that select() may end with the error init
\* found in the required inputs (RequiredInputIsForbidden or
\* RequiredInputIsNotAvailable) before the requirement for the owner is
\* processed; in no case is a result returned.
C25_OwnersSelectedUnlessInitFails ==
    /\ Succeeded =>
          \A i \in DOMAIN result.inputs :
              ChainOwned(result.inputs[i]) =>
                  \E j \in DOMAIN result.inputs : IsOwnerOf(result.inputs[j], result.inputs[i])
    /\ pc = "done" /\ Orphaned =>
          /\ result.status = "err"
          /\ result.err.kind \in {"UnfulfillableRequirement", "RequiredInputIsForbidden",
                                  "RequiredInputIsNotAvailable"}
          /\ result.err.kind = "UnfulfillableRequirement" \/ FailedOnRequiredInput

\* A basic input owned by an NFT was selected as required input while the NFT
\* itself, at a foreign address, had been filtered out of the pool.
C25_Witness ==
    /\ pc = "done" /\ Orphaned
    /\ result.err = UnfulfillableRequirement(ReqNft(5))
    /\ \E i \in DOMAIN args.available_inputs : args.available_inputs[i].output_id = 25

\* What select() appended to the caller's outputs: successors of selected
\* chain inputs during the loop, then the remainder, then one basic output
\* per selected input with a storage deposit return.
Successors == SubSeq(outputs, Len(args.outputs) + 1, Len(outputs))
IsSuccessor(o) ==
    /\ o.kind \in {"alias", "nft", "foundry"}
    /\ \E i \in DOMAIN selected_inputs :
          /\ selected_inputs[i].output.kind = o.kind
          /\ InputChainId(selected_inputs[i]) = OutputChainId(o)
RemainderOutputs == IF result.remainder.kind = "none" THEN <<>> ELSE <<result.remainder>>
ReturnInputs == SelectSeq(selected_inputs, LAMBDA input : input.output.sdr.ret.kind # "none")
ReturnOutputs ==
    [i \in DOMAIN ReturnInputs |->
        [Basic(ReturnInputs[i].output.sdr.amount, AddrA) EXCEPT
            !.addr = ReturnInputs[i].output.sdr.ret]]
BalancedWithoutChains ==
    /\ InputAmounts(result.inputs) = OutputAmounts(args.outputs)
    /\ \A i \in DOMAIN result.inputs : result.inputs[i].output.kind = "basic"

\* C26: Selected.outputs starts with the caller's outputs, unmodified and in
\* their order (a null alias id stays null); the successors of transitioned
\* chain inputs, then the remainder, then the storage deposit returns follow;
\* when the selected inputs and the caller's outputs balance exactly and no
\* chain input is selected, Selected.outputs is the caller's list.
C26_SuppliedOutputsFirst ==
    Succeeded =>
        /\ Len(result.outputs) >= Len(args.outputs)
        /\ SubSeq(result.outputs, 1, Len(args.outputs)) = args.outputs
        /\ result.outputs = args.outputs \o Successors \o RemainderOutputs \o ReturnOutputs
        /\ \A i \in DOMAIN Successors : IsSuccessor(Successors[i])
        /\ BalancedWithoutChains => result.outputs = args.outputs

\* An alias was minted (null id) from an alias-free selection with a remainder.
C26_Witness ==
    /\ Succeeded
    /\ \E i \in DOMAIN args.outputs :
          /\ args.outputs[i].kind = "alias" /\ args.outputs[i].id = 0
          /\ result.outputs[i] = args.outputs[i]
    /\ Len(result.outputs) > Len(args.outputs)

NoDuplicateIds(inputs) ==
    \A i, j \in DOMAIN inputs : inputs[i].output_id = inputs[j].output_id => i = j
IsPermutation(s, t) ==
    /\ Len(s) = Len(t)
    /\ \E f \in [DOMAIN s -> DOMAIN t] :
          /\ \A i, j \in DOMAIN s : f[i] = f[j] => i = j
          /\ \A i \in DOMAIN s : s[i] = t[f[i]]

\* C27: for a pool of distinct output ids, at every point of select() no
\* output id is both in the available pool and among the selected inputs, nor
\* twice among the selected inputs; Selected.inputs is a duplicate-free part
\* of the supplied pool, and a permutation of the inputs selected in the loop
\* (sort_input_signing_data drops and duplicates none).
C27_NoInputTwice ==
    NoDuplicateIds(args.available_inputs) =>
        /\ Ids(Range(available_inputs)) \cap Ids(Range(selected_inputs)) = {}
        /\ NoDuplicateIds(selected_inputs)
        /\ NoDuplicateIds(available_inputs)
        /\ Range(selected_inputs) \cup Range(available_inputs) \subseteq Range(args.available_inputs)
        /\ Succeeded =>
              /\ NoDuplicateIds(result.inputs)
              /\ Range(result.inputs) \subseteq Range(args.available_inputs)
              /\ IsPermutation(result.inputs, selected_inputs)

\* A selection of three inputs, one of them selected as required input, that
\* the sort returned in another order than they were selected in.
C27_Witness ==
    /\ Succeeded
    /\ Len(result.inputs) >= 3
    /\ result.inputs # selected_inputs
    /\ args.required_inputs.some /\ args.required_inputs.ids # {}

\* One iteration of the loop: a requirement is popped, and what is pushed is
\* paid for by inputs that left the pool.
PopsOne ==
    pc' = "loop" =>
        /\ Len(requirements') >= Len(requirements) - 1
        /\ Len(requirements') - (Len(requirements) - 1)
              <= Len(available_inputs) - Len(available_inputs')
        /\ Len(available_inputs') <= Len(available_inputs)
IterationBound ==
    pc \in {"loop", "done"} =>
        /\ iterations + Len(requirements)
              <= initial_requirements + (Len(args.available_inputs) - Len(available_inputs))
        /\ iterations <= initial_requirements + Len(args.available_inputs)

\* C28: select() terminates: every iteration of the loop pops one requirement
\* and pushes requirements only for inputs it moved out of the pool, the
\* number of iterations never exceeds the number of requirements at the start
\* of the loop plus the size of the pool, and every run reaches a result or an
\* error.
C28_Terminates ==
    /\ [][SelectLoop => PopsOne]_vars
    /\ []IterationBound
    /\ <>(pc = "done")

\* A run whose loop ran longer than its initial stack: requirements were
\* pushed while it ran, and it came to an end.
C28_Witness ==
    /\ pc = "done"
    /\ iterations > initial_requirements
    /\ iterations >= 5


\* The task the latest set_password call spawned still sleeps: the timeout has
\* not elapsed since that call, which has returned, and no other call has begun.
WithinTimeout ==
    /\ pc = "idle"
    /\ calls >= 1
    /\ tasks[calls + 1] = Task("sleep", FALSE)

\* C30: after set_password(p) has returned on an adapter with a timeout, and until
\* that timeout has elapsed counting from the call, the key derived from p is
\* available and the handle kept is that of the task the call spawned: an earlier
\* key-clearing task neither purges the new key nor removes the new handle,
\* whatever the interleaving of the call with that task.
C30_KeyKeptUntilTimeout ==
    WithinTimeout =>
        /\ key = derive_key_from_password(Password(calls))
        /\ timeout_task = calls + 1

====
